---- MODULE Spec2Model ----
(***************************************************************************)
(* A model of the piccolo column / query layer:                            *)
(*   - the join-chain resolver (ForeignKey.__getattribute__),              *)
(*   - frozen queries (Query.freeze / FrozenQuery),                        *)
(*   - the Alter DDL builder (Alter.* / Alter.default_ddl),                *)
(*   - the many-to-many operations (M2MAddRelated / M2MRemoveRelated /     *)
(*     M2MGetRelated).                                                     *)
(* Each part has its own specification (SpecFK, SpecQuery, SpecAlter,      *)
(* SpecM2M); the variables of the other parts stay at their initial value. *)
(***************************************************************************)
EXTENDS Integers, Sequences, FiniteSets, TLC

VARIABLES
    heap,       \* column objects, their ColumnMeta and ForeignKeyMeta objects
    schema,     \* name of the declared table schema
    cur,        \* the relationship column object the caller currently holds
    depth,      \* number of relationship-to-relationship accesses made to reach cur
    last,       \* outcome of the most recent attribute access
    passes,     \* how many times the caller went back to the root column
    first,      \* the first terminal resolution ever made (depth, name, chain length)
    engine,     \* dialect of the engine bound to the table ("none": no engine)
    query,      \* the unfrozen query builder: its class and its clauses
    frozen,     \* the FrozenQuery returned by freeze() (its inner query), or NoFrozen
    out,        \* outcome of the most recent query operation
    sent,       \* statements passed to the engine by the most recent run
    rendered,   \* whether the most recent operation invoked a dialect renderer
    frozenText, \* str() of the statements rendered by freeze(), taken at that time
    pending,    \* the run() that is suspended at an await: its target and its statement list
    alter,      \* per dialect: the Alter builder of a table bound to that engine
    alterErr,   \* per dialect: the error raised by the most recent builder call ("" if none)
    ncalls,     \* per dialect: number of operation-adding calls that returned normally
    steps,      \* number of builder calls made so far
    overridden, \* per dialect: number of calls that replaced an earlier operation
    lastDrop,   \* the most recent drop_table call: <<step, cascade, if_exists>>, or <<>>
    phase,      \* progress of the call sequence add_column, rename_column, drop_column
    callLog,    \* the builder calls made so far, in call order (kept while renderings are observed)
    rendering,  \* the most recent reading of builder.ddl and the one before it, if no call came between
    warnings,   \* the warnings the migration manager printed, in order
    rowObjs,    \* the caller's row objects: table, primary key, _exists_in_db
    genreTable, \* primary keys of the rows stored in the related table
    serial,     \* next serial value of the related table's primary key
    joining,    \* the rows of the joining table, in insertion order
    m2mOut,     \* the most recent many-to-many operation and its outcome
    transaction_exists, \* whether the caller holds an open transaction on the engine
    m2mLog,     \* what the most recent many-to-many operation did on the engine
    m2mPc,      \* where the running many-to-many operation is suspended ("idle": none is running)
    m2mSeen,    \* what a second task saw when it last got control during the running operation
    joiningTable, \* the foreign key columns of the joining table of an M2M
    m2mMeta,    \* the M2MMeta of that M2M: whether built, and its stored columns
    roleOut,    \* outcome of the most recent role lookup
    m2mSelect,  \* the M2MSelect built by calling the M2M, or NoSelect
    selectOut,  \* outcome of the most recent M2MSelect operation
    fkDecl,     \* a declared relationship column: its arguments, and whether it was built
    declOut,    \* outcome of the most recent operation on that column
    runner,     \* a Query or DDL builder: its type, its renderers, statements per renderer
    runEngine,  \* engine type of the engine bound to the builder's table ("none": no engine)
    runOut,     \* outcome of the most recent request or run on the builder
    engineLog,  \* the statements the engine received during the most recent run
    renders,    \* how many times the most recent operation rendered the statement list
    runSeen,    \* the engine log a second task saw when it last got control during the running run()
    revFk,      \* a relationship column reached through a path of relationship columns
    revOut,     \* outcome of the most recent reverse() of that column
    colDecl,    \* the column declaration made in a table class body, and whether it was accepted
    colOut,     \* outcome of the most recent operation on that column
    deltaIn,    \* a column, a timedelta and the engine type of the column's table
    deltaOut,   \* outcome of the most recent addition or subtraction of the timedelta
    resQuery,   \* the query whose rows are processed: its selected columns and output options
    resRows,    \* the rows the engine returned, as dicts
    resOut      \* what response_handler received and what _process_results returned

fkVars == <<heap, schema, cur, depth, last, passes, first>>

queryVars == <<engine, query, frozen, out, sent, rendered, frozenText, pending>>

alterVars == <<alter, alterErr, ncalls, steps, overridden, lastDrop, phase,
               callLog, rendering, warnings>>

m2mVars == <<rowObjs, genreTable, serial, joining, m2mOut,
             transaction_exists, m2mLog, m2mPc, m2mSeen>>

roleVars == <<joiningTable, m2mMeta, roleOut>>

selectVars == <<m2mSelect, selectOut>>

declVars == <<fkDecl, declOut>>

runVars == <<runner, runEngine, runOut, engineLog, renders, runSeen>>

revVars == <<revFk, revOut>>

defaultVars == <<colDecl, colOut>>

deltaVars == <<deltaIn, deltaOut>>

resVars == <<resQuery, resRows, resOut>>

vars == <<heap, schema, cur, depth, last, passes, first,
          engine, query, frozen, out, sent, rendered, frozenText, pending,
          alter, alterErr, ncalls, steps, overridden, lastDrop, phase,
          callLog, rendering, warnings,
          rowObjs, genreTable, serial, joining, m2mOut,
          transaction_exists, m2mLog, m2mPc, m2mSeen,
          joiningTable, m2mMeta, roleOut,
          m2mSelect, selectOut, fkDecl, declOut,
          runner, runEngine, runOut, engineLog, renders, runSeen,
          revFk, revOut,
          colDecl, colOut,
          deltaIn, deltaOut,
          resQuery, resRows, resOut>>

(***************************************************************************)
(* Part 1 - join-chain resolver                                            *)
(***************************************************************************)

\* The call-chain limit of ForeignKey.__getattribute__.
CallChainLimit == 10

\* How many times the caller may restart from the root column.
MaxPasses == 2

\* Attribute names used by the caller: the three column names every table
\* of the schemas below may declare, one method name and one private name.
ColNames == {"id", "name", "next"}
AttrNames == ColNames \cup {"all_columns", "_meta"}

NoAttrs == [n \in ColNames |-> 0]

\* Number of tables of the longest linear schema T0 -> T1 -> ... (at least
\* CallChainLimit + 2, so that an 11-hop path can be attempted).
MaxTables == 12

SchemaNames == {"linear", "short", "self", "cycle"}

\* Table t references table ref[t] through its column "next" (-1: no
\* relationship column).  order is the order in which the table classes are
\* created; a table created before its target can only name it lazily.
SchemaDef(s) ==
    CASE s = "linear" ->
            [n |-> MaxTables,
             ref |-> [t \in 0..(MaxTables - 1) |->
                         IF t < MaxTables - 1 THEN t + 1 ELSE -1],
             lazy |-> [t \in 0..(MaxTables - 1) |-> FALSE],
             order |-> [i \in 1..MaxTables |-> MaxTables - i]]
      [] s = "short" ->
            [n |-> 3,
             ref |-> [t \in 0..2 |-> IF t < 2 THEN t + 1 ELSE -1],
             lazy |-> [t \in 0..2 |-> FALSE],
             order |-> [i \in 1..3 |-> 3 - i]]
      [] s = "self" ->
            [n |-> 1,
             ref |-> [t \in 0..0 |-> 0],
             lazy |-> [t \in 0..0 |-> FALSE],
             order |-> <<0>>]
      [] s = "cycle" ->
            [n |-> 2,
             ref |-> [t \in 0..1 |-> 1 - t],
             lazy |-> [t \in 0..1 |-> t = 1],
             order |-> <<1, 0>>]

EmptyHeap ==
    [cols |-> <<>>, metas |-> <<>>, fkmetas |-> <<>>,
     tables |-> [t \in 0..(MaxTables - 1) |-> <<>>]]

\* ColumnMeta.copy: a new ColumnMeta with its own copy of the call chain.
ColumnMeta_copy(h, m) ==
    [heap |-> [h EXCEPT !.metas = Append(@, h.metas[m])],
     id |-> Len(h.metas) + 1]

\* ForeignKeyMeta.copy: a new ForeignKeyMeta with its own proxy column list.
ForeignKeyMeta_copy(h, f) ==
    [heap |-> [h EXCEPT !.fkmetas = Append(@, h.fkmetas[f])],
     id |-> Len(h.fkmetas) + 1]

\* Column.copy: copy.copy(self) (same instance attributes) with a copied
\* ColumnMeta.
Column_copy(h, c) ==
    LET m == ColumnMeta_copy(h, h.cols[c].meta)
        obj == [h.cols[c] EXCEPT !.meta = m.id]
    IN [heap |-> [m.heap EXCEPT !.cols = Append(@, obj)],
        id |-> Len(h.cols) + 1]

\* A defect of ForeignKey.copy: the copy keeps the ColumnMeta of the original.
ForeignKey_copy_shared_meta(h, c) ==
    LET f == ForeignKeyMeta_copy(h, h.cols[c].fkmeta)
        obj == [h.cols[c] EXCEPT !.fkmeta = f.id]
    IN [heap |-> [f.heap EXCEPT !.cols = Append(@, obj)],
        id |-> Len(h.cols) + 1]

\* ForeignKey.copy: copy.copy(self), then _meta and _foreign_key_meta are
\* replaced by copies.
ForeignKey_copy(h, c) ==
    LET m == ColumnMeta_copy(h, h.cols[c].meta)
        f == ForeignKeyMeta_copy(m.heap, h.cols[c].fkmeta)
        obj == [h.cols[c] EXCEPT !.meta = m.id, !.fkmeta = f.id]
    IN [heap |-> [f.heap EXCEPT !.cols = Append(@, obj)],
        id |-> Len(h.cols) + 1]

\* column.copy() dispatches on the class of the column.
CopyColumn(h, c) ==
    IF h.cols[c].isfk THEN ForeignKey_copy(h, c) ELSE Column_copy(h, c)

\* _foreign_key_meta.resolved_references._meta.columns
ReferencedColumns(h, c) == h.tables[h.fkmetas[h.cols[c].fkmeta].references]

RECURSIVE SetProxyLoop(_, _, _, _)
SetProxyLoop(h, self, columns, i) ==
    IF i > Len(columns) THEN h
    ELSE LET cp == CopyColumn(h, columns[i])
             nm == cp.heap.cols[cp.id].name
             h1 == [cp.heap EXCEPT
                      !.cols[self].attrs[nm] = cp.id,
                      !.fkmetas[cp.heap.cols[self].fkmeta].proxy_columns =
                          Append(@, cp.id)]
         IN SetProxyLoop(h1, self, columns, i + 1)

\* ForeignKey.set_proxy_columns
set_proxy_columns(h, self) ==
    SetProxyLoop(h, self, ReferencedColumns(h, self), 1)

\* Creating a table class: the metaclass creates the column objects (primary
\* key "id", "name" and the relationship column "next" when the table has
\* one) and then calls ForeignKey._setup, which fills in the proxy columns
\* when the target is given as a table class (not lazily).
NewColumn(t, nm, fk, m, f) ==
    [table |-> t, name |-> nm, isfk |-> fk, meta |-> m, fkmeta |-> f,
     attrs |-> NoAttrs]

CreateTable(h, sd, t) ==
    LET nc == Len(h.cols)
        nm == Len(h.metas)
        nf == Len(h.fkmetas)
        hasfk == sd.ref[t] # -1
        plain == <<NewColumn(t, "id", FALSE, nm + 1, 0),
                   NewColumn(t, "name", FALSE, nm + 2, 0)>>
        cols1 == IF hasfk
                 THEN Append(plain, NewColumn(t, "next", TRUE, nm + 3, nf + 1))
                 ELSE plain
        emptyMeta == [call_chain |-> <<>>]
        h1 == [cols |-> h.cols \o cols1,
               metas |-> h.metas \o [i \in 1..Len(cols1) |-> emptyMeta],
               fkmetas |-> IF hasfk
                           THEN Append(h.fkmetas,
                                       [references |-> sd.ref[t],
                                        lazy |-> sd.lazy[t],
                                        proxy_columns |-> <<>>])
                           ELSE h.fkmetas,
               tables |-> [h.tables EXCEPT
                             ![t] = [i \in 1..Len(cols1) |-> nc + i]]]
    IN IF hasfk /\ ~sd.lazy[t] THEN set_proxy_columns(h1, nc + 3) ELSE h1

RECURSIVE CreateTables(_, _, _)
CreateTables(h, sd, i) ==
    IF i > sd.n THEN h
    ELSE CreateTables(CreateTable(h, sd, sd.order[i]), sd, i + 1)

InitialHeap(s) == CreateTables(EmptyHeap, SchemaDef(s), 1)

\* Band.manager: reading the class attribute gives the column object itself
\* (ForeignKey.__get__ with obj = None).
RootColumn(h) == h.tables[0][3]

\* The caller drops a returned column once it has looked at it, and a column
\* copy made by an access that raised is dropped with the exception: the
\* object (always the most recently allocated one) is freed, with its
\* ColumnMeta and ForeignKeyMeta unless another object still uses them.
Release(h, c) ==
    LET m == h.cols[c].meta
        f == h.cols[c].fkmeta
        rest == SubSeq(h.cols, 1, Len(h.cols) - 1)
        freeMeta == /\ m = Len(h.metas)
                    /\ \A k \in 1..Len(rest) : rest[k].meta # m
        freeFk == /\ f # 0
                  /\ f = Len(h.fkmetas)
                  /\ \A k \in 1..Len(rest) : rest[k].fkmeta # f
    IN [h EXCEPT
          !.cols = rest,
          !.metas = IF freeMeta THEN SubSeq(@, 1, Len(@) - 1) ELSE @,
          !.fkmetas = IF freeFk THEN SubSeq(@, 1, Len(@) - 1) ELSE @]

PrivateNames == {"_meta"}

\* dir(self): the instance attributes that are set plus the class attributes.
Dir(h, self) ==
    {n \in ColNames : h.cols[self].attrs[n] # 0} \cup {"all_columns", "_meta"}

RECURSIVE DelattrLoop(_, _, _, _)
DelattrLoop(h, new, proxies, i) ==
    IF i > Len(proxies) THEN h
    ELSE DelattrLoop([h EXCEPT !.cols[new].attrs[h.cols[proxies[i]].name] = 0],
                     new, proxies, i + 1)

RECURSIVE NewProxyLoop(_, _, _, _)
NewProxyLoop(h, new, columns, i) ==
    IF i > Len(columns) THEN h
    ELSE LET cp == CopyColumn(h, columns[i])
             nm == cp.heap.cols[cp.id].name
             chain == cp.heap.metas[cp.heap.cols[new].meta].call_chain
             h1 == [cp.heap EXCEPT
                      !.metas[cp.heap.cols[cp.id].meta].call_chain = chain,
                      !.cols[new].attrs[nm] = cp.id,
                      !.fkmetas[cp.heap.cols[new].fkmeta].proxy_columns =
                          Append(@, cp.id)]
         IN NewProxyLoop(h1, new, columns, i + 1)

\* ForeignKey.__getattribute__, the branch for a relationship column value.
ForeignKeyBranch(h, self, value) ==
    LET cp == ForeignKey_copy(h, value)
        new == cp.id
        h2 == [cp.heap EXCEPT
                 !.metas[cp.heap.cols[new].meta].call_chain = Append(@, self)]
    IN IF Len(h2.metas[h2.cols[new].meta].call_chain) >= CallChainLimit
       THEN [heap |-> Release(h2, new), kind |-> "CallChainTooLong", id |-> 0]
       ELSE LET fm == h2.cols[new].fkmeta
                h3 == DelattrLoop(h2, new, h2.fkmetas[fm].proxy_columns, 1)
                h4 == [h3 EXCEPT !.fkmetas[fm].proxy_columns = <<>>]
                h5 == NewProxyLoop(h4, new, ReferencedColumns(h4, value), 1)
            IN [heap |-> h5, kind |-> "fk", id |-> new]

\* A defect of the column branch: the traversed column is not appended.
ColumnBranch_no_append(h, self, value) ==
    LET cp == Column_copy(h, value)
        new == cp.id
        chain == cp.heap.metas[cp.heap.cols[self].meta].call_chain
        h2 == [cp.heap EXCEPT
                 !.metas[cp.heap.cols[new].meta].call_chain = chain]
    IN [heap |-> h2, kind |-> "column", id |-> new]

\* ForeignKey.__getattribute__, the branch for any other column value.
ColumnBranch(h, self, value) ==
    LET cp == Column_copy(h, value)
        new == cp.id
        chain == cp.heap.metas[cp.heap.cols[self].meta].call_chain
        h2 == [cp.heap EXCEPT
                 !.metas[cp.heap.cols[new].meta].call_chain =
                     Append(chain, self)]
    IN [heap |-> h2, kind |-> "column", id |-> new]

\* ForeignKey.__getattribute__
ForeignKey_getattribute(h, self, name) ==
    LET fm == h.fkmetas[h.cols[self].fkmeta]
        h1 == IF /\ name \notin PrivateNames
                 /\ name \notin Dir(h, self)
                 /\ fm.proxy_columns = <<>>
                 /\ fm.lazy
              THEN set_proxy_columns(h, self)
              ELSE h
    IN IF name \notin ColNames
       THEN [heap |-> h1, kind |-> "other", id |-> 0]
       ELSE LET value == h1.cols[self].attrs[name]
            IN IF value = 0
               THEN [heap |-> h1, kind |-> "AttributeError", id |-> 0]
               ELSE IF h1.cols[value].isfk
                    THEN ForeignKeyBranch(h1, self, value)
                    ELSE ColumnBranch(h1, self, value)

NoResult ==
    [kind |-> "none", name |-> "", table |-> -1, colname |-> "",
     chain |-> <<>>, depth |-> 0]

\* What the caller sees of the outcome of getattr(cur, name).
Outcome(r, name, d) ==
    IF r.kind \in {"fk", "column"}
    THEN [kind |-> r.kind, name |-> name,
          table |-> r.heap.cols[r.id].table,
          colname |-> r.heap.cols[r.id].name,
          chain |-> r.heap.metas[r.heap.cols[r.id].meta].call_chain,
          depth |-> d]
    ELSE [kind |-> r.kind, name |-> name, table |-> -1, colname |-> "",
          chain |-> <<>>, depth |-> d]

NoFirst == [depth |-> -1, name |-> "", len |-> -1]

StartFK ==
    /\ schema \in SchemaNames
    /\ heap = InitialHeap(schema)
    /\ cur = RootColumn(heap)
    /\ depth = 0
    /\ last = NoResult
    /\ passes = 1
    /\ first = NoFirst

\* The resolver part when another part of the model is being explored.
IdleFK ==
    /\ schema = "short"
    /\ heap = EmptyHeap
    /\ cur = 0
    /\ depth = 0
    /\ last = NoResult
    /\ passes = 1
    /\ first = NoFirst

\* getattr(cur, name) for a name that is not a relationship column of the
\* referenced table: the caller inspects the result and drops it.
Resolve(name) ==
    /\ name \in AttrNames \ {"next"}
    /\ LET r == ForeignKey_getattribute(heap, cur, name)
       IN /\ last' = Outcome(r, name, depth)
          /\ heap' = IF r.kind = "column" THEN Release(r.heap, r.id)
                     ELSE r.heap
          /\ first' = IF first = NoFirst /\ r.kind = "column"
                      THEN [depth |-> depth, name |-> name,
                            len |-> Len(last'.chain)]
                      ELSE first
    /\ UNCHANGED <<schema, cur, depth, passes>>

\* cur = cur.next: follow the relationship column of the referenced table.
Follow ==
    /\ LET r == ForeignKey_getattribute(heap, cur, "next")
       IN /\ last' = Outcome(r, "next", depth)
          /\ heap' = r.heap
          /\ cur' = IF r.kind = "fk" THEN r.id ELSE cur
          /\ depth' = IF r.kind = "fk" THEN depth + 1 ELSE depth
    /\ UNCHANGED <<schema, passes, first>>

\* The caller starts again from the class attribute of the first table.
Restart ==
    /\ passes < MaxPasses
    /\ depth > 0 \/ last.kind # "none"
    /\ passes' = passes + 1
    /\ cur' = RootColumn(heap)
    /\ depth' = 0
    /\ last' = NoResult
    /\ UNCHANGED <<heap, schema, first>>


(***************************************************************************)
(* Part 2 - query rendering, freeze() and FrozenQuery                      *)
(***************************************************************************)

\* How many clauses the caller may add to the unfrozen query.
MaxClauses == 2

Dialects == {"postgres", "sqlite", "cockroach"}

\* Values of table._meta.db.engine_type; "none" stands for a table without
\* an engine, "mysql" for an engine type the dispatch does not know.
EngineTypes == Dialects \cup {"mysql", "none"}

Renderers == Dialects \cup {"default"}

\* The renderer properties a query class overrides.
QueryClasses ==
    {{"default"}, {"postgres", "default"}, {"sqlite"},
     {"postgres", "sqlite", "cockroach"}, {}}

ClauseNames == {"where", "limit", "output"}

\* Names looked up on a FrozenQuery.
FrozenAttrNames == ClauseNames \cup {"first", "bogus", "run", "run_sync", "query"}

NoFrozen == [set |-> FALSE, querystrings |-> <<>>, clauses |-> <<>>]

Ok(v) == [kind |-> "ok", value |-> v]
Raise(e) == [kind |-> "error", value |-> e]

\* The marks that tell the statements of one renderer apart.
StatementTags == <<"#1", "#2", "#3", "#4">>

\* One statement as rendered by renderer r of a query with the given
\* clauses: a sequence of tokens.
Statement(r, k, clauses) ==
    <<"SELECT", r, StatementTags[k]>> \o clauses

\* Query.<dialect>_querystrings / default_querystrings of a query class:
\* NotImplementedError unless the class overrides renderer r.
RendererOf(q, r) ==
    IF r \in q.class
    THEN Ok([k \in 1..q.nstmts |-> Statement(r, k, q.clauses)])
    ELSE Raise("NotImplementedError")

\* Query.engine_type
Query_engine_type(e) ==
    IF e # "none" THEN Ok(e) ELSE Raise("ValueError")

\* The dispatch of Query.querystrings for an unfrozen query.  The field
\* rendered tells whether a dialect renderer (postgres / sqlite / cockroach /
\* default querystrings) was invoked.
Dispatch(q, e) ==
    IF Query_engine_type(e).kind = "error"
    THEN [kind |-> "error", value |-> "ValueError", rendered |-> FALSE]
    ELSE IF e \in Dialects
         THEN LET r == IF RendererOf(q, e).kind = "ok" THEN RendererOf(q, e)
                       ELSE RendererOf(q, "default")
              IN [kind |-> r.kind, value |-> r.value, rendered |-> TRUE]
         ELSE [kind |-> "error", value |-> "Exception", rendered |-> FALSE]

\* A defect of Query.querystrings: the frozen statement list is ignored.
Query_querystrings_no_cache(q, e) == Dispatch(q, e)

\* Query.querystrings
Query_querystrings(q, e) ==
    IF q.is_frozen
    THEN [kind |-> "ok", value |-> q.frozen_querystrings, rendered |-> FALSE]
    ELSE Dispatch(q, e)

RECURSIVE JoinStatements(_)
JoinStatements(qs) ==
    IF Len(qs) = 0 THEN <<>>
    ELSE IF Len(qs) = 1 THEN qs[1]
    ELSE qs[1] \o <<"; ">> \o JoinStatements(Tail(qs))

\* Query.__str__
Query_str(q, e) ==
    LET r == Query_querystrings(q, e)
    IN IF r.kind = "error" THEN r
       ELSE [r EXCEPT !.value = JoinStatements(r.value)]

\* Query._run: the statements handed to the engine, in order.
Query_run(q, e) ==
    IF e = "none"
    THEN [kind |-> "error", value |-> "ValueError", rendered |-> FALSE]
    ELSE Query_querystrings(q, e)

\* The query object built by Query.freeze: a new instance of the class with
\* the rendered statements and copies of the limit and output delegates.
Query_freeze(q, e) ==
    LET r == Query_querystrings(q, e)
        keeps(c) == c \in {"limit", "output"}
    IN IF r.kind = "error" THEN r
       ELSE [r EXCEPT !.value =
                [class |-> q.class, nstmts |-> q.nstmts,
                 clauses |-> SelectSeq(q.clauses, keeps),
                 is_frozen |-> TRUE,
                 frozen_querystrings |-> r.value]]

\* A defect of FrozenQuery.__getattr__: the lookup is passed on to the query.
FrozenQuery_getattr_delegates(name) == Ok(name)

\* FrozenQuery attribute lookup: run, run_sync and query are found the
\* normal way, every other name ends in FrozenQuery.__getattr__, which
\* always raises.
FrozenQuery_getattr(name) ==
    IF name \in {"run", "run_sync", "query"} THEN Ok(name)
    ELSE Raise("AttributeError")

NoOut == [op |-> "none", target |-> "none", kind |-> "ok", value |-> <<>>]

OutOf(op, target, r) ==
    [op |-> op, target |-> target, kind |-> r.kind, value |-> r.value]

\* No run() is suspended.
NoPending == [target |-> "none", statements |-> <<>>, rendered |-> FALSE]

StartQuery ==
    /\ engine \in EngineTypes
    /\ \E c \in QueryClasses, n \in 1..2 :
          query = [class |-> c, nstmts |-> n, clauses |-> <<>>,
                   is_frozen |-> FALSE, frozen_querystrings |-> <<>>]
    /\ frozen = NoFrozen
    /\ out = NoOut
    /\ sent = <<>>
    /\ rendered = FALSE
    /\ frozenText = <<>>
    /\ pending = NoPending

IdleQuery ==
    /\ engine = "none"
    /\ query = [class |-> {}, nstmts |-> 1, clauses |-> <<>>,
                is_frozen |-> FALSE, frozen_querystrings |-> <<>>]
    /\ frozen = NoFrozen
    /\ out = NoOut
    /\ sent = <<>>
    /\ rendered = FALSE
    /\ frozenText = <<>>
    /\ pending = NoPending

\* query.where(...), query.limit(...), query.output(...)
AddClause(c) ==
    /\ Len(query.clauses) < MaxClauses
    /\ query' = [query EXCEPT !.clauses = Append(@, c)]
    /\ out' = OutOf("clause", "query", Ok(<<c>>))
    /\ rendered' = FALSE
    /\ UNCHANGED <<engine, frozen, sent, frozenText, pending>>

\* table._meta.db = another engine (or none)
SwitchEngine(e) ==
    /\ e # engine
    /\ engine' = e
    /\ out' = NoOut
    /\ rendered' = FALSE
    /\ UNCHANGED <<query, frozen, sent, frozenText, pending>>

\* str(query)
StrQuery ==
    /\ out' = OutOf("str", "query", Query_str(query, engine))
    /\ rendered' = Query_str(query, engine).rendered
    /\ UNCHANGED <<engine, query, frozen, sent, frozenText, pending>>

\* Query._run up to its first await, for the query q: the engine check and
\* the statement list, which raise at once; then the first statement is
\* handed to the engine and run() is suspended until the engine answers.
StartRunOf(target, q) ==
    LET r == Query_run(q, engine)
        suspended == r.kind = "ok" /\ r.value # <<>>
    IN  /\ pending.target = "none"
        /\ out' = IF suspended
                  THEN [op |-> "run", target |-> target, kind |-> "running",
                        value |-> <<>>]
                  ELSE OutOf("run", target, r)
        /\ sent' = IF suspended THEN <<r.value[1]>> ELSE <<>>
        /\ rendered' = r.rendered
        /\ pending' = IF suspended
                      THEN [target |-> target, statements |-> r.value,
                            rendered |-> r.rendered]
                      ELSE NoPending

\* await query.run() / query.run_sync()
RunQuery ==
    /\ StartRunOf("query", query)
    /\ UNCHANGED <<engine, query, frozen, frozenText>>

\* The engine answers the statement a suspended run() sent last, with
\* rows (results) or with none.  _process_results converts a non-empty
\* answer with the engine the table holds now: when the engine was taken
\* away in the meantime it raises AttributeError and nothing more is sent.
\* Otherwise the run goes on with the engine it was called with: it sends
\* the next statement, or returns when none is left.
ResumeRun(results) ==
    /\ pending.target # "none"
    /\ IF results /\ engine = "none"
       THEN /\ out' = OutOf("run", pending.target, Raise("AttributeError"))
            /\ rendered' = pending.rendered
            /\ pending' = NoPending
            /\ UNCHANGED sent
       ELSE IF Len(sent) < Len(pending.statements)
       THEN /\ sent' = Append(sent, pending.statements[Len(sent) + 1])
            /\ UNCHANGED <<out, rendered, pending>>
       ELSE /\ out' = OutOf("run", pending.target, Ok(pending.statements))
            /\ rendered' = pending.rendered
            /\ pending' = NoPending
            /\ UNCHANGED sent
    /\ UNCHANGED <<engine, query, frozen, frozenText>>

\* frozen = query.freeze()
Freeze ==
    /\ ~frozen.set
    /\ LET r == Query_freeze(query, engine)
       IN /\ out' = OutOf("freeze", "query",
                          IF r.kind = "ok" THEN Ok(<<>>) ELSE r)
          /\ frozen' = IF r.kind = "ok"
                       THEN [set |-> TRUE,
                             querystrings |-> r.value.frozen_querystrings,
                             clauses |-> r.value.clauses]
                       ELSE frozen
          /\ frozenText' = IF r.kind = "ok"
                           THEN JoinStatements(r.value.frozen_querystrings)
                           ELSE frozenText
    /\ rendered' = Query_freeze(query, engine).rendered
    /\ UNCHANGED <<engine, query, sent, pending>>

\* The inner query held by the FrozenQuery.
InnerQuery ==
    [class |-> query.class, nstmts |-> query.nstmts,
     clauses |-> frozen.clauses,
     is_frozen |-> TRUE,
     frozen_querystrings |-> frozen.querystrings]

\* str(frozen)
StrFrozen ==
    /\ frozen.set
    /\ out' = OutOf("str", "frozen", Query_str(InnerQuery, engine))
    /\ rendered' = Query_str(InnerQuery, engine).rendered
    /\ UNCHANGED <<engine, query, frozen, sent, frozenText, pending>>

\* await frozen.run() / frozen.run_sync()
RunFrozen ==
    /\ frozen.set
    /\ StartRunOf("frozen", InnerQuery)
    /\ UNCHANGED <<engine, query, frozen, frozenText>>

\* frozen.<name>
GetattrFrozen(name) ==
    /\ frozen.set
    /\ out' = OutOf("getattr", "frozen",
                    [FrozenQuery_getattr(name) EXCEPT !.value = <<name, @>>])
    /\ rendered' = FALSE
    /\ UNCHANGED <<engine, query, frozen, sent, frozenText, pending>>

(***************************************************************************)
(* Part 3 - the Alter builder                                              *)
(***************************************************************************)

\* How many builder calls are made on one Alter builder.
MaxCalls == 3

TableName == "band"

\* Column arguments: a column name (str) or a Column instance of the table.
\* A Column instance carries its name and its owning table (_meta._name,
\* _meta._table); a column that was just constructed has neither.
StrColumn(n) == [obj |-> FALSE, class |-> "str", name |-> n]
ColumnObj(c, n) == [obj |-> TRUE, class |-> c, name |-> n, table |-> TableName]
UnboundColumn(c) == [obj |-> TRUE, class |-> c, name |-> "", table |-> "None"]

NameStr == StrColumn("name")
NameCol == ColumnObj("Varchar", "name")
PopCol == ColumnObj("Integer", "popularity")
PriceCol == ColumnObj("Numeric", "price")
ManagerStr == StrColumn("manager")
\* Band.manager = ForeignKey(Manager): references table "manager", target
\* column its primary key "id".
ManagerCol == ColumnObj("ForeignKey", "manager")
\* A ForeignKey(Manager, target_column=...) column of the table; the
\* target is "None" when none was declared.
ForeignKeyObj(n, references, target_column) ==
    [obj |-> TRUE, class |-> "ForeignKey", name |-> n,
     references |-> references, target_column |-> target_column]
ManagerFk == ForeignKeyObj("manager", "manager", "None")
ManagerNameFk == ForeignKeyObj("manager_name", "manager", "name")
\* The primary key of a table declared with Serial, and one declared with
\* BigSerial.
SerialCol == ColumnObj("Serial", "id")
BigSerialCol == ColumnObj("BigSerial", "id")

\* The builder calls the caller may make.
BuilderCalls ==
    {[m |-> "add_column", name |-> "members", column |-> UnboundColumn("Integer")]}
    \cup {[m |-> "drop_column", column |-> PopCol]}
    \cup {[m |-> "drop_default", column |-> PopCol]}
    \cup {[m |-> "drop_table", cascade |-> c, if_exists |-> e] : c, e \in BOOLEAN}
    \cup {[m |-> "rename_table", new_name |-> n] : n \in {"group", "act"}}
    \cup {[m |-> "rename_constraint", old_name |-> "c_old", new_name |-> n] :
             n \in {"c_one", "c_two"}}
    \cup {[m |-> "rename_column", column |-> PopCol, new_name |-> "rating"]}
    \cup {[m |-> "set_column_type", old_column |-> PopCol,
           new_column |-> UnboundColumn("BigInt"), using_expression |-> "None"]}
    \cup {[m |-> "set_column_type", old_column |-> SerialCol,
           new_column |-> UnboundColumn("BigSerial"), using_expression |-> "None"]}
    \cup {[m |-> "set_column_type", old_column |-> BigSerialCol,
           new_column |-> UnboundColumn("Serial"), using_expression |-> "None"]}
    \cup {[m |-> "set_default", column |-> PopCol, value |-> "0"]}
    \cup {[m |-> "set_null", column |-> NameCol, boolean |-> TRUE]}
    \cup {[m |-> "set_unique", column |-> c, boolean |-> b] :
             c \in {NameStr, NameCol}, b \in BOOLEAN}
    \cup {[m |-> "set_length", column |-> c, length |-> "512"] :
             c \in {NameCol, PopCol}}
    \cup {[m |-> "drop_constraint", constraint_name |-> "c_old"]}
    \cup {[m |-> "drop_foreign_key_constraint", column |-> ManagerCol]}
    \cup {[m |-> "add_foreign_key_constraint", column |-> c,
            referenced_table_name |-> t, referenced_column_name |-> n] :
             c \in {ManagerStr, ManagerFk, ManagerNameFk},
             t \in {"None", "staff"}, n \in {"None", "uuid"}}
    \cup {[m |-> "set_digits", column |-> PriceCol, digits |-> d] :
             d \in {<<"None">>, <<"5", "2">>, <<"5">>}}
    \cup {[m |-> "set_schema", schema_name |-> "archive"]}

\* Alter.__init__
NewAlter ==
    [_add |-> <<>>, _add_foreign_key_constraint |-> <<>>,
     _drop_constraint |-> <<>>, _drop_default |-> <<>>,
     _drop_table |-> <<>>, _drop |-> <<>>, _rename_columns |-> <<>>,
     _rename_table |-> <<>>, _set_column_type |-> <<>>,
     _set_default |-> <<>>, _set_digits |-> <<>>, _set_length |-> <<>>,
     _set_null |-> <<>>, _set_schema |-> <<>>, _set_unique |-> <<>>,
     _rename_constraint |-> <<>>]

\* AlterColumnStatement.column_name
column_name(column) == column.name

\* Alter._get_constraint_name
get_constraint_name(column) == <<TableName, column_name(column), "fkey">>

Built(b) == [alter |-> b, err |-> ""]
Failed(b, e) == [alter |-> b, err |-> e]

\* A defect of Alter.set_length: the operation is recorded on SQLite too.
Alter_set_length_no_skip(b, c, d) ==
    IF c.column.class \notin {"str", "Varchar"}
    THEN Failed(b, "ValueError")
    ELSE Built([b EXCEPT !._set_length =
                   Append(@, [kind |-> "SetLength", column |-> c.column,
                              length |-> c.length])])

\* Alter.set_length
Alter_set_length(b, c, d) ==
    IF d = "sqlite" THEN Built(b)
    ELSE IF c.column.class \notin {"str", "Varchar"}
         THEN Failed(b, "ValueError")
         ELSE Built([b EXCEPT !._set_length =
                        Append(@, [kind |-> "SetLength", column |-> c.column,
                                   length |-> c.length])])

\* The primary key column of every table.
PrimaryKeyName == "id"

\* ForeignKeyMeta.resolved_target_column (its db_column_name): the declared
\* target column, or the primary key of the referenced table.
ForeignKeyMeta_resolved_target_column(column) ==
    IF column.target_column = "None" THEN PrimaryKeyName
    ELSE column.target_column

\* ForeignKeyMeta.resolved_references (its tablename).
ForeignKeyMeta_resolved_references(column) == column.references

\* A defect of Alter.add_foreign_key_constraint: the primary key is used
\* even when the relationship declares a target column.
Alter_add_foreign_key_constraint_primary_key(b, c) ==
    IF c.referenced_column_name = "None" /\ c.column.class # "ForeignKey"
    THEN Failed(b, "ValueError")
    ELSE IF c.referenced_table_name = "None" /\ c.column.class # "ForeignKey"
    THEN Failed(b, "ValueError")
    ELSE Built([b EXCEPT !._add_foreign_key_constraint =
                   Append(@, [kind |-> "AddForeignKeyConstraint",
                              constraint_name |-> get_constraint_name(c.column),
                              foreign_key_column_name |-> column_name(c.column),
                              referenced_table_name |->
                                  IF c.referenced_table_name = "None"
                                  THEN ForeignKeyMeta_resolved_references(c.column)
                                  ELSE c.referenced_table_name,
                              referenced_column_name |->
                                  IF c.referenced_column_name = "None"
                                  THEN PrimaryKeyName
                                  ELSE c.referenced_column_name])])

\* Alter.add_foreign_key_constraint
Alter_add_foreign_key_constraint(b, c) ==
    IF c.referenced_column_name = "None" /\ c.column.class # "ForeignKey"
    THEN Failed(b, "ValueError")
    ELSE IF c.referenced_table_name = "None" /\ c.column.class # "ForeignKey"
    THEN Failed(b, "ValueError")
    ELSE Built([b EXCEPT !._add_foreign_key_constraint =
                   Append(@, [kind |-> "AddForeignKeyConstraint",
                              constraint_name |-> get_constraint_name(c.column),
                              foreign_key_column_name |-> column_name(c.column),
                              referenced_table_name |->
                                  IF c.referenced_table_name = "None"
                                  THEN ForeignKeyMeta_resolved_references(c.column)
                                  ELSE c.referenced_table_name,
                              referenced_column_name |->
                                  IF c.referenced_column_name = "None"
                                  THEN ForeignKeyMeta_resolved_target_column(c.column)
                                  ELSE c.referenced_column_name])])

\* A defect of Alter.rename_table: the operation is appended.
Alter_rename_table_appends(b, c) ==
    Built([b EXCEPT !._rename_table =
              Append(@, [kind |-> "RenameTable", new_name |-> c.new_name])])

\* Alter.rename_table: overrides the existing operation.
Alter_rename_table(b, c) ==
    Built([b EXCEPT !._rename_table =
              <<[kind |-> "RenameTable", new_name |-> c.new_name]>>])

\* Alter.rename_constraint: overrides the existing operation.
Alter_rename_constraint(b, c) ==
    Built([b EXCEPT !._rename_constraint =
              <<[kind |-> "RenameConstraint", old_name |-> c.old_name,
                 new_name |-> c.new_name]>>])

\* Alter.set_column_type
Alter_set_column_type(b, c) ==
    Built([b EXCEPT !._set_column_type =
              Append(@, [kind |-> "SetColumnType",
                         old_column |-> c.old_column,
                         new_column |-> c.new_column,
                         using_expression |-> c.using_expression])])

\* Alter.drop_table
Alter_drop_table(b, c) ==
    Built([b EXCEPT !._drop_table =
              <<[kind |-> "DropTable", cascade |-> c.cascade,
                 if_exists |-> c.if_exists]>>])

\* The builder methods of Alter, applied on a table bound to dialect d.
Apply(b, c, d) ==
    CASE c.m = "add_column" ->
            Built([b EXCEPT !._add =
                Append(@, [kind |-> "AddColumn",
                           column |-> [c.column EXCEPT !.name = c.name,
                                                       !.table = TableName],
                           name |-> c.name])])
      [] c.m = "drop_column" ->
            Built([b EXCEPT !._drop =
                Append(@, [kind |-> "DropColumn", column |-> c.column])])
      [] c.m = "drop_default" ->
            Built([b EXCEPT !._drop_default =
                Append(@, [kind |-> "DropDefault", column |-> c.column])])
      [] c.m = "drop_table" -> Alter_drop_table(b, c)
      [] c.m = "rename_table" -> Alter_rename_table(b, c)
      [] c.m = "rename_constraint" -> Alter_rename_constraint(b, c)
      [] c.m = "rename_column" ->
            Built([b EXCEPT !._rename_columns =
                Append(@, [kind |-> "RenameColumn", column |-> c.column,
                           new_name |-> c.new_name])])
      [] c.m = "set_column_type" -> Alter_set_column_type(b, c)
      [] c.m = "set_default" ->
            Built([b EXCEPT !._set_default =
                Append(@, [kind |-> "SetDefault", column |-> c.column,
                           value |-> c.value])])
      [] c.m = "set_null" ->
            Built([b EXCEPT !._set_null =
                Append(@, [kind |-> "SetNull", column |-> c.column,
                           boolean |-> c.boolean])])
      [] c.m = "set_unique" ->
            Built([b EXCEPT !._set_unique =
                Append(@, [kind |-> "SetUnique", column |-> c.column,
                           boolean |-> c.boolean])])
      [] c.m = "set_length" -> Alter_set_length(b, c, d)
      [] c.m = "drop_constraint" ->
            Built([b EXCEPT !._drop_constraint =
                Append(@, [kind |-> "DropConstraint",
                           constraint_name |-> <<c.constraint_name>>])])
      [] c.m = "drop_foreign_key_constraint" ->
            Built([b EXCEPT !._drop_constraint =
                Append(@, [kind |-> "DropConstraint",
                           constraint_name |-> get_constraint_name(c.column)])])
      [] c.m = "add_foreign_key_constraint" ->
            Alter_add_foreign_key_constraint(b, c)
      [] c.m = "set_digits" ->
            Built([b EXCEPT !._set_digits =
                Append(@, [kind |-> "SetDigits", column |-> c.column,
                           digits |-> c.digits,
                           column_type |-> IF c.column.class = "Numeric"
                                           THEN "NUMERIC" ELSE "NUMERIC"])])
      [] c.m = "set_schema" ->
            Built([b EXCEPT !._set_schema =
                Append(@, [kind |-> "SetSchema",
                           schema_name |-> c.schema_name])])

\* column.column_type of a column of the given class on a table bound to
\* the given engine.
Column_column_type(class, engine_type) ==
    CASE class = "Serial" \/ class = "PrimaryKey" ->
            IF engine_type = "none" THEN Raise("ValueError")
            ELSE IF engine_type = "postgres" THEN Ok("SERIAL")
            ELSE IF engine_type \in {"cockroach", "sqlite"} THEN Ok("INTEGER")
            ELSE Raise("Exception")
      [] class = "BigSerial" ->
            IF engine_type = "none" THEN Raise("ValueError")
            ELSE IF engine_type = "postgres" THEN Ok("BIGSERIAL")
            ELSE IF engine_type = "cockroach" THEN Ok("BIGINT")
            ELSE IF engine_type = "sqlite" THEN Ok("INTEGER")
            ELSE Raise("Exception")
      [] class = "BigInt" ->
            IF engine_type = "none" THEN Raise("ValueError")
            ELSE IF engine_type \in {"postgres", "cockroach"} THEN Ok("BIGINT")
            ELSE IF engine_type = "sqlite" THEN Ok("INTEGER")
            ELSE Raise("Exception")
      [] class = "SmallInt" ->
            IF engine_type = "none" THEN Raise("ValueError")
            ELSE IF engine_type \in {"postgres", "cockroach"} THEN Ok("SMALLINT")
            ELSE IF engine_type = "sqlite" THEN Ok("INTEGER")
            ELSE Raise("Exception")
      [] class = "Varchar" -> Ok("VARCHAR(255)")
      [] class = "UUID" -> Ok("UUID")
      [] OTHER -> Ok("INTEGER")

\* The ddl property of each operation class: the clause as a token
\* sequence on a table bound to dialect d, or the error it raises.
StatementDdl(op, d) ==
    CASE op.kind = "RenameTable" -> Ok(<<"RENAME TO", op.new_name>>)
      [] op.kind = "RenameConstraint" ->
            Ok(<<"RENAME CONSTRAINT", op.old_name, "TO", op.new_name>>)
      [] op.kind = "RenameColumn" ->
            Ok(<<"RENAME COLUMN", column_name(op.column), "TO", op.new_name>>)
      [] op.kind = "DropColumn" ->
            Ok(<<"DROP COLUMN", column_name(op.column)>>)
      [] op.kind = "AddColumn" ->
            Ok(<<"ADD COLUMN", op.name, op.column.class>>)
      [] op.kind = "DropDefault" ->
            Ok(<<"ALTER COLUMN", column_name(op.column), "DROP DEFAULT">>)
      [] op.kind = "SetColumnType" ->
            Ok(<<"ALTER COLUMN", column_name(op.old_column), "TYPE",
                 Column_column_type(op.new_column.class, d).value>>
               \o IF op.using_expression # "None"
                  THEN <<"USING", op.using_expression>> ELSE <<>>)
      [] op.kind = "SetDefault" ->
            Ok(<<"ALTER COLUMN", column_name(op.column), "SET DEFAULT",
                 op.value>>)
      [] op.kind = "SetUnique" ->
            IF op.boolean
            THEN Ok(<<"ADD UNIQUE", column_name(op.column)>>)
            ELSE IF ~op.column.obj THEN Raise("ValueError")
            ELSE Ok(<<"DROP CONSTRAINT", TableName, column_name(op.column),
                      "key">>)
      [] op.kind = "SetNull" ->
            IF op.boolean
            THEN Ok(<<"ALTER COLUMN", column_name(op.column), "DROP NOT NULL">>)
            ELSE Ok(<<"ALTER COLUMN", column_name(op.column), "SET NOT NULL">>)
      [] op.kind = "SetLength" ->
            Ok(<<"ALTER COLUMN", column_name(op.column), "TYPE VARCHAR",
                 op.length>>)
      [] op.kind = "DropConstraint" ->
            Ok(<<"DROP CONSTRAINT IF EXISTS">> \o op.constraint_name)
      [] op.kind = "AddForeignKeyConstraint" ->
            Ok(<<"ADD CONSTRAINT">> \o op.constraint_name
               \o <<"FOREIGN KEY", op.foreign_key_column_name, "REFERENCES",
                    op.referenced_table_name, op.referenced_column_name>>)
      [] op.kind = "SetDigits" ->
            IF op.digits = <<"None">>
            THEN Ok(<<"ALTER COLUMN", column_name(op.column), "TYPE",
                      op.column_type>>)
            ELSE IF Len(op.digits) < 2 THEN Raise("IndexError")
            ELSE Ok(<<"ALTER COLUMN", column_name(op.column), "TYPE",
                      op.column_type, "(", op.digits[1], op.digits[2], ")">>)
      [] op.kind = "SetSchema" -> Ok(<<"SET SCHEMA", op.schema_name>>)
      [] op.kind = "DropTable" ->
            Ok(<<"DROP TABLE">>
               \o (IF op.if_exists THEN <<"IF EXISTS">> ELSE <<>>)
               \o <<TableName>>
               \o (IF op.cascade THEN <<"CASCADE">> ELSE <<>>))

\* A defect of Alter.default_ddl: the drops are chained before the renames.
ChainedOperations_drops_first(b) ==
    b._add \o b._add_foreign_key_constraint \o b._drop
    \o b._rename_columns \o b._rename_table \o b._rename_constraint
    \o b._drop_constraint \o b._drop_default \o b._set_column_type
    \o b._set_unique \o b._set_null \o b._set_length \o b._set_default
    \o b._set_digits \o b._set_schema

\* itertools.chain(...) of Alter.default_ddl
ChainedOperations(b) ==
    b._add \o b._add_foreign_key_constraint \o b._rename_columns
    \o b._rename_table \o b._rename_constraint \o b._drop
    \o b._drop_constraint \o b._drop_default \o b._set_column_type
    \o b._set_unique \o b._set_null \o b._set_length \o b._set_default
    \o b._set_digits \o b._set_schema

\* alterations = [i.ddl for i in ...]: the clauses, or the first error.
RECURSIVE Alterations(_, _)
Alterations(ops, d) ==
    IF Len(ops) = 0 THEN Ok(<<>>)
    ELSE LET first_ddl == StatementDdl(ops[1], d)
         IN IF first_ddl.kind = "error" THEN first_ddl
            ELSE LET rest == Alterations(Tail(ops), d)
                 IN IF rest.kind = "error" THEN rest
                    ELSE Ok(<<first_ddl.value>> \o rest.value)

\* ",".join(f" {i}" for i in alterations)
RECURSIVE JoinClauses(_)
JoinClauses(cs) ==
    IF Len(cs) = 0 THEN <<>>
    ELSE IF Len(cs) = 1 THEN cs[1]
    ELSE cs[1] \o <<",">> \o JoinClauses(Tail(cs))

AlterTable == <<"ALTER TABLE", TableName>>

\* A defect of Alter.default_ddl: drop_table does not short-circuit.
Alter_default_ddl_no_short_circuit(b, d) ==
    LET alterations == Alterations(ChainedOperations(b) \o b._drop_table, d)
    IN IF alterations.kind = "error" THEN alterations
       ELSE IF d = "sqlite"
            THEN Ok([i \in 1..Len(alterations.value) |->
                        AlterTable \o alterations.value[i]])
            ELSE Ok(<<AlterTable \o JoinClauses(alterations.value)>>)

\* Alter.default_ddl (the renderer used for every dialect, as Alter defines
\* no dialect-specific one): a list of statements, or the error raised.
Alter_default_ddl(b, d) ==
    IF b._drop_table # <<>>
    THEN Ok(<<StatementDdl(b._drop_table[1], d).value>>)
    ELSE LET alterations == Alterations(ChainedOperations(b), d)
         IN IF alterations.kind = "error" THEN alterations
            ELSE IF d = "sqlite"
                 THEN Ok([i \in 1..Len(alterations.value) |->
                             AlterTable \o alterations.value[i]])
                 ELSE Ok(<<AlterTable \o JoinClauses(alterations.value)>>)

\* The rendering of the builder kept for dialect d.
Ddl(d) == Alter_default_ddl(alter[d], d)

\* What AddColumn.ddl leaves behind: the column carries the name of the
\* operation.
AddColumn_ddl_effect(op) == [op EXCEPT !.column.name = op.name]

\* What SetColumnType.ddl leaves behind: a new column without a table is
\* bound to the table of the old column.
SetColumnType_ddl_effect(op) ==
    IF op.new_column.table = "None"
    THEN [op EXCEPT !.new_column.table = op.old_column.table]
    ELSE op

\* A defect: reading builder.ddl consumes the column-type changes.
Alter_ddl_effect_drops_operation(b) ==
    IF b._drop_table # <<>> THEN b
    ELSE [b EXCEPT
            !._add = [i \in DOMAIN b._add |-> AddColumn_ddl_effect(b._add[i])],
            !._set_column_type = <<>>]

\* What reading builder.ddl leaves behind in the builder. The operations
\* that can raise (SetUnique, SetDigits) are chained after AddColumn and
\* SetColumnType, and no operation is read once drop_table was called.
Alter_ddl_effect(b) ==
    IF b._drop_table # <<>> THEN b
    ELSE [b EXCEPT
            !._add = [i \in DOMAIN b._add |-> AddColumn_ddl_effect(b._add[i])],
            !._set_column_type =
                [i \in DOMAIN b._set_column_type |->
                    SetColumnType_ddl_effect(b._set_column_type[i])]]

\* How many builder calls are made before renderings are compared.
MaxLogged == 2

NoDdl == [kind |-> "none", statements |-> <<>>, error |-> ""]

NoRendering == [dialect |-> "none", previous |-> NoDdl, last |-> NoDdl]

\* The outcome of reading builder.ddl.
DdlOutcome(r) ==
    IF r.kind = "ok" THEN [kind |-> "ok", statements |-> r.value, error |-> ""]
    ELSE [kind |-> "error", statements |-> <<>>, error |-> r.value]

NextPhase(ph, c) ==
    IF ph = 0 /\ c.m = "add_column" THEN 1
    ELSE IF ph = 1 /\ c.m = "rename_column" THEN 2
    ELSE IF ph = 2 /\ c.m = "drop_column" THEN 3
    ELSE -1

StartAlter ==
    /\ alter = [d \in Dialects |-> NewAlter]
    /\ alterErr = [d \in Dialects |-> ""]
    /\ ncalls = [d \in Dialects |-> 0]
    /\ steps = 0
    /\ overridden = [d \in Dialects |-> 0]
    /\ lastDrop = <<>>
    /\ phase = 0
    /\ callLog = <<>>
    /\ rendering = NoRendering
    /\ warnings = <<>>

IdleAlter ==
    /\ alter = [d \in {} |-> NewAlter]
    /\ alterErr = [d \in {} |-> ""]
    /\ ncalls = [d \in {} |-> 0]
    /\ steps = 0
    /\ overridden = [d \in {} |-> 0]
    /\ lastDrop = <<>>
    /\ phase = 0
    /\ callLog = <<>>
    /\ rendering = NoRendering
    /\ warnings = <<>>

\* Whether call c replaces an operation that builder b already holds.
Replaces(b, c) ==
    \/ c.m = "rename_table" /\ b._rename_table # <<>>
    \/ c.m = "rename_constraint" /\ b._rename_constraint # <<>>

\* One builder call, made on the builder of every dialect.
Call(c) ==
    /\ steps < MaxCalls
    /\ steps' = steps + 1
    /\ alter' = [d \in Dialects |-> Apply(alter[d], c, d).alter]
    /\ alterErr' = [d \in Dialects |-> Apply(alter[d], c, d).err]
    /\ ncalls' = [d \in Dialects |->
                    IF Apply(alter[d], c, d).err = "" /\ c.m # "drop_table"
                    THEN ncalls[d] + 1
                    ELSE ncalls[d]]
    /\ overridden' = [d \in Dialects |->
                        IF Replaces(alter[d], c) THEN overridden[d] + 1
                        ELSE overridden[d]]
    /\ lastDrop' = IF c.m = "drop_table"
                   THEN <<steps + 1, c.cascade, c.if_exists>>
                   ELSE lastDrop
    /\ phase' = NextPhase(phase, c)

\* One builder call, kept in the log of calls.
LoggedCall(c) ==
    /\ Len(callLog) < MaxLogged
    /\ Call(c)
    /\ callLog' = Append(callLog, c)
    /\ rendering' = NoRendering
    /\ UNCHANGED warnings

\* Reading builder.ddl (or str(builder)) of the builder kept for dialect d.
Render(d) ==
    /\ rendering' = [dialect |-> d,
                     previous |-> IF rendering.dialect = d THEN rendering.last
                                  ELSE NoDdl,
                     last |-> DdlOutcome(Alter_default_ddl(alter[d], d))]
    /\ alter' = [alter EXCEPT ![d] = Alter_ddl_effect(@)]
    /\ UNCHANGED <<alterErr, ncalls, steps, overridden, lastDrop, phase, callLog,
                   warnings>>

MaxWarnings == 2    \* warnings the migration manager prints at most

\* The warning the migration manager prints for a change it cannot make.
SerialWarning ==
    "Unable to migrate Serial to BigSerial and vice versa. This must be done manually."

\* The set_column_type calls a migration may ask for.
TypeChanges == {c \in BuilderCalls : c.m = "set_column_type"}

\* Whether the change is between the two auto-increment aliases.
SerialTypeChange(c) ==
    {c.old_column.class, c.new_column.class} = {"Serial", "BigSerial"}

\* A variant of the migration manager's decision that never skips a change.
MigrationManager_alter_column_type_never_skips(c) ==
    [skip |-> FALSE, warning |-> ""]

\* The migration manager's decision about the column type change c: a
\* change between Serial and BigSerial is skipped with a warning, any
\* other is passed to Alter.set_column_type.
MigrationManager_alter_column_type(c) ==
    IF SerialTypeChange(c) THEN [skip |-> TRUE, warning |-> SerialWarning]
    ELSE [skip |-> FALSE, warning |-> ""]

\* The migration manager alters the type of a column: one step of a
\* migration, made for the table of every dialect.
MigrateColumnType(c) ==
    LET decision == MigrationManager_alter_column_type(c)
    IN  IF decision.skip
        THEN /\ Len(warnings) < MaxWarnings
             /\ warnings' = Append(warnings, decision.warning)
             /\ UNCHANGED <<alter, alterErr, ncalls, steps, overridden,
                            lastDrop, phase>>
        ELSE /\ Call(c)
             /\ UNCHANGED warnings

(***************************************************************************)
(* Part 4 - many-to-many operations                                        *)
(*                                                                         *)
(*   class Band(Table):        genres = M2M(LazyTableReference(...))       *)
(*   class Genre(Table)                                                    *)
(*   class GenreToBand(Table): band = ForeignKey(Band)                     *)
(*                             genre = ForeignKey(Genre)                   *)
(***************************************************************************)

MaxJoining == 3     \* rows the joining table holds at most
MaxRows == 2        \* rows passed to one add_m2m / remove_m2m call

\* The value of a primary key attribute that was never set.
None == -1

\* Python truthiness of a primary key value (an int or None).
Truthy(v) == v # None /\ v # 0

\* Row objects held by the caller.  b1, b2: Band rows; g0, g1: Genre rows
\* loaded from the database (g0 was stored with the explicit key 0); n1: a
\* Genre row that was constructed but never saved.
BandObjs == {"b1", "b2"}
GenreObjs == {"g0", "g1", "n1"}

InitialObjs ==
    [o \in BandObjs \cup GenreObjs |->
        CASE o = "b1" -> [table |-> "band", pk |-> 1, _exists_in_db |-> TRUE]
          [] o = "b2" -> [table |-> "band", pk |-> 2, _exists_in_db |-> TRUE]
          [] o = "g0" -> [table |-> "genre", pk |-> 0, _exists_in_db |-> TRUE]
          [] o = "g1" -> [table |-> "genre", pk |-> 1, _exists_in_db |-> TRUE]
          [] OTHER -> [table |-> "genre", pk |-> None, _exists_in_db |-> FALSE]]

\* Sequences of at most n distinct elements of S.
RowSeqs(S, n) ==
    {s \in UNION {[1..k -> S] : k \in 0..n} :
        \A i, j \in DOMAIN s : i # j => s[i] # s[j]}

\* The table M2M is declared on, and the first two foreign key columns of
\* the joining table.
M2MTable == "band"
foreign_key_columns ==
    << [name |-> "band", references |-> "band"],
       [name |-> "genre", references |-> "genre"] >>

\* M2MMeta.primary_foreign_key: the first foreign key that references the
\* table M2M is declared on.
M2MMeta_primary_foreign_key(table, fks) ==
    LET idx == {i \in 1..Len(fks) : fks[i].references = table}
    IN  IF idx = {} THEN Raise("ValueError")
        ELSE Ok(fks[CHOOSE i \in idx : \A j \in idx : i <= j])

\* M2MMeta.secondary_foreign_key: the first foreign key that references
\* another table.
M2MMeta_secondary_foreign_key(table, fks) ==
    LET idx == {i \in 1..Len(fks) : fks[i].references # table}
    IN  IF idx = {} THEN Raise("ValueError")
        ELSE Ok(fks[CHOOSE i \in idx : \A j \in idx : i <= j])

\* M2MMeta.secondary_table
M2MMeta_secondary_table(table, fks) ==
    M2MMeta_secondary_foreign_key(table, fks).value.references

\* Table.insert(*rows).run() on the related table: every row is stored; a
\* row without a key gets the next serial value, and the row object is
\* marked as existing in the database.  A key that is already stored is a
\* unique violation.
RECURSIVE Insert_run(_, _)
Insert_run(db, rows) ==
    IF rows = <<>> THEN Ok(db)
    ELSE LET o == Head(rows)
             key == IF db.objs[o].pk = None THEN db.serial ELSE db.objs[o].pk
         IN  IF key \in db.genre THEN Raise("IntegrityError")
             ELSE Insert_run(
                    [db EXCEPT !.genre = @ \cup {key},
                               !.serial = IF db.objs[o].pk = None
                                          THEN @ + 1 ELSE @,
                               !.objs[o] = [@ EXCEPT !.pk = key,
                                                     !._exists_in_db = TRUE]],
                    Tail(rows))

\* The rows of the joining table built by M2MAddRelated._run, one per
\* passed row.
joining_table_rows(db, target, rows) ==
    LET pfk == M2MMeta_primary_foreign_key(M2MTable, foreign_key_columns).value
        sfk == M2MMeta_secondary_foreign_key(M2MTable, foreign_key_columns).value
    IN  [i \in 1..Len(rows) |->
            [n \in {pfk.name, sfk.name} |->
                IF n = pfk.name THEN db.objs[target].pk
                ELSE db.objs[rows[i]].pk]]

\* A defect: every passed row is inserted, saved or not.
M2MAddRelated__run_unsaved_all(db, rows) ==
    rows

\* M2MAddRelated._run, `unsaved`: the passed rows that are not saved yet.
M2MAddRelated__run_unsaved(db, rows) ==
    SelectSeq(rows, LAMBDA o : ~db.objs[o]._exists_in_db)

\* The loop of M2MRemoveRelated.run over rows[i..]: the collected row ids,
\* or the error of the class check.
RECURSIVE RowIds(_, _, _, _)
RowIds(db, rows, related_table, row_ids) ==
    IF rows = <<>> THEN Ok(row_ids)
    ELSE LET row == db.objs[Head(rows)]
         IN  IF row.table # related_table THEN Raise("ValueError")
             ELSE RowIds(db, Tail(rows), related_table,
                         IF Truthy(row.pk) THEN Append(row_ids, row.pk)
                         ELSE row_ids)

\* M2MRemoveRelated.run
M2MRemoveRelated_run(db, target, rows) ==
    LET pfk == M2MMeta_primary_foreign_key(M2MTable, foreign_key_columns).value
        sfk == M2MMeta_secondary_foreign_key(M2MTable, foreign_key_columns).value
        related_table == sfk.references
        ids == RowIds(db, rows, related_table, <<>>)
        Kept(j) == ~(/\ j[pfk.name] = db.objs[target].pk
                     /\ \E i \in 1..Len(ids.value) : j[sfk.name] = ids.value[i])
    IN  IF ids.kind = "error"
        THEN [kind |-> "error", value |-> ids.value, db |-> db]
        ELSE IF ids.value # <<>>
        THEN [kind |-> "ok", value |-> "",
              db |-> [db EXCEPT !.joining = SelectSeq(@, Kept)]]
        ELSE [kind |-> "ok", value |-> "", db |-> db]

\* M2MGetRelated.run: the rows of the secondary table whose key is selected
\* from the joining rows of the given row.
M2MGetRelated_run(db, row) ==
    LET pfk == M2MMeta_primary_foreign_key(M2MTable, foreign_key_columns).value
        sfk == M2MMeta_secondary_foreign_key(M2MTable, foreign_key_columns).value
        subquery == {db.joining[i][sfk.name] :
                        i \in {k \in 1..Len(db.joining) :
                                 db.joining[k][pfk.name] = db.objs[row].pk}}
    IN  {key \in db.genre : key \in subquery}

\* One entry of the engine log of an operation: what happened, and whether
\* a transaction was open on the engine at that moment.  The first entry of
\* a log is the call itself.
Event(ev, in_transaction) == [ev |-> ev, in_transaction |-> in_transaction]

\* A defect: _run is never wrapped in a transaction of its own.
M2MAddRelated_run_own_transaction_never(exists) ==
    FALSE

\* M2MAddRelated.run: _run is awaited directly when
\* engine.transaction_exists(), and inside `async with engine.transaction()`
\* otherwise.
M2MAddRelated_run_own_transaction(exists) ==
    ~exists

\* What M2MRemoveRelated.run does on the engine: the DELETE is run as it is.
M2MRemoveRelated_run_log(db, target, rows, exists) ==
    LET sfk == M2MMeta_secondary_foreign_key(M2MTable, foreign_key_columns).value
        ids == RowIds(db, rows, sfk.references, <<>>)
    IN  IF ids.kind = "ok" /\ ids.value # <<>>
        THEN <<Event("CALL", exists), Event("DELETE joining", exists)>>
        ELSE <<Event("CALL", exists)>>

\* What M2MGetRelated.run does on the engine: the SELECT is run as it is.
M2MGetRelated_run_log(db, row, exists) ==
    <<Event("CALL", exists), Event("SELECT related", exists)>>

\* The database and the caller's row objects as one record.
Db == [objs |-> rowObjs, genre |-> genreTable, serial |-> serial,
       joining |-> joining]

NoM2MOut == [op |-> "none", target |-> "", rows |-> <<>>, kind |-> "ok",
             err |-> "", value |-> {}, inserted |-> {}]

\* No operation is running.  before is the database and the row objects as
\* they were when the most recent add_m2m was called (as they are now, when
\* another operation came after it).
NoM2MPc(before) == [at |-> "idle", own |-> FALSE, before |-> before]

NoM2MSeen == [seen |-> FALSE, objs |-> [o \in {} |-> 0], genre |-> {},
              joining |-> <<>>, log |-> <<>>]

StartM2M ==
    /\ rowObjs = InitialObjs
    /\ genreTable = {0, 1}
    /\ serial = 2
    /\ joining = <<>>
    /\ m2mOut = NoM2MOut
    /\ transaction_exists = FALSE
    /\ m2mLog = <<>>
    /\ m2mPc = NoM2MPc(Db)
    /\ m2mSeen = NoM2MSeen

IdleM2M ==
    /\ rowObjs = [o \in {} |-> 0]
    /\ genreTable = {}
    /\ serial = 0
    /\ joining = <<>>
    /\ m2mOut = NoM2MOut
    /\ transaction_exists = FALSE
    /\ m2mLog = <<>>
    /\ m2mPc = NoM2MPc(Db)
    /\ m2mSeen = NoM2MSeen

\* Whether the statements of the running add_m2m are sent inside a
\* transaction: the caller's, or the one run() opened.
InTransaction == transaction_exists \/ m2mPc.own

\* target.add_m2m(*rows, m2m=Band.genres) is awaited: run() reads the engine
\* from rows[0] (an IndexError when no row was passed) and asks it whether a
\* transaction exists; the coroutine is then suspended at its first await.
AddM2M(target, rows) ==
    /\ m2mPc.at = "idle"
    /\ Len(joining) + Len(rows) <= MaxJoining
    /\ m2mLog' = <<Event("CALL", transaction_exists)>>
    /\ m2mSeen' = NoM2MSeen
    /\ IF rows = <<>>
       THEN /\ m2mOut' = [op |-> "add", target |-> target, rows |-> rows,
                          kind |-> "error", err |-> "IndexError",
                          value |-> {}, inserted |-> {}]
            /\ m2mPc' = NoM2MPc(Db)
       ELSE /\ m2mOut' = [op |-> "add", target |-> target, rows |-> rows,
                          kind |-> "running", err |-> "",
                          value |-> {}, inserted |-> {}]
            /\ m2mPc' =
                 LET own == M2MAddRelated_run_own_transaction(transaction_exists)
                 IN  [at |-> IF own THEN "transaction" ELSE "_run",
                      own |-> own, before |-> Db]
    /\ UNCHANGED <<rowObjs, genreTable, serial, joining, transaction_exists>>

\* `async with engine.transaction():` is entered.
AddM2MBegin ==
    /\ m2mPc.at = "transaction"
    /\ m2mLog' = Append(m2mLog, Event("BEGIN", TRUE))
    /\ m2mPc' = [m2mPc EXCEPT !.at = "_run"]
    /\ UNCHANGED <<rowObjs, genreTable, serial, joining, m2mOut,
                   transaction_exists, m2mSeen>>

\* _run: `await rows[0].__class__.insert(*unsaved).run()`, when there are
\* unsaved rows.  An error ends _run; a transaction run() opened is then
\* left with the exception.
AddM2MInsertRelated ==
    /\ m2mPc.at = "_run"
    /\ LET unsaved == M2MAddRelated__run_unsaved(Db, m2mOut.rows)
           ins == Insert_run(Db, unsaved)
       IN  /\ unsaved # <<>>
           /\ m2mLog' = Append(m2mLog, Event("INSERT related", InTransaction))
           /\ IF ins.kind = "ok"
              THEN /\ rowObjs' = ins.value.objs
                   /\ genreTable' = ins.value.genre
                   /\ serial' = ins.value.serial
                   /\ m2mOut' = [m2mOut EXCEPT
                                   !.inserted = ins.value.genre \ genreTable]
                   /\ m2mPc' = [m2mPc EXCEPT !.at = "joining"]
                   /\ UNCHANGED m2mSeen
              ELSE /\ UNCHANGED <<rowObjs, genreTable, serial>>
                   /\ m2mOut' = [m2mOut EXCEPT
                                   !.err = ins.value,
                                   !.kind = IF m2mPc.own THEN "running"
                                            ELSE "error"]
                   /\ m2mPc' = [m2mPc EXCEPT
                                  !.at = IF m2mPc.own THEN "exit" ELSE "idle"]
                   /\ m2mSeen' = IF m2mPc.own THEN m2mSeen ELSE NoM2MSeen
    /\ UNCHANGED <<joining, transaction_exists>>

\* _run: one joining row is built per passed row and
\* `await joining_table.insert(*joining_table_rows).run()`.  With no unsaved
\* row there is no await before it.
AddM2MInsertJoining ==
    /\ \/ m2mPc.at = "joining"
       \/ /\ m2mPc.at = "_run"
          /\ M2MAddRelated__run_unsaved(Db, m2mOut.rows) = <<>>
    /\ joining' = joining \o joining_table_rows(Db, m2mOut.target, m2mOut.rows)
    /\ m2mLog' = Append(m2mLog, Event("INSERT joining", InTransaction))
    /\ m2mOut' = [m2mOut EXCEPT !.kind = IF m2mPc.own THEN "running" ELSE "ok"]
    /\ m2mPc' = [m2mPc EXCEPT !.at = IF m2mPc.own THEN "exit" ELSE "idle"]
    /\ m2mSeen' = IF m2mPc.own THEN m2mSeen ELSE NoM2MSeen
    /\ UNCHANGED <<rowObjs, genreTable, serial, transaction_exists>>

\* `async with engine.transaction():` is left: the transaction commits on a
\* normal exit and rolls back on an exception, which undoes what was stored.
AddM2MExit ==
    /\ m2mPc.at = "exit"
    /\ IF m2mOut.err = ""
       THEN /\ m2mLog' = Append(m2mLog, Event("COMMIT", TRUE))
            /\ m2mOut' = [m2mOut EXCEPT !.kind = "ok"]
            /\ UNCHANGED <<genreTable, joining>>
       ELSE /\ m2mLog' = Append(m2mLog, Event("ROLLBACK", TRUE))
            /\ m2mOut' = [m2mOut EXCEPT !.kind = "error"]
            /\ genreTable' = m2mPc.before.genre
            /\ joining' = m2mPc.before.joining
    /\ m2mPc' = [m2mPc EXCEPT !.at = "idle", !.own = FALSE]
    /\ m2mSeen' = NoM2MSeen
    /\ UNCHANGED <<rowObjs, serial, transaction_exists>>

\* A second task gets control while add_m2m, remove_m2m or get_m2m is
\* suspended and looks at the row objects, the tables and the engine log
\* (what it saw is kept until the operation returns).
ObserveM2M ==
    /\ m2mPc.at # "idle"
    /\ m2mSeen' = [seen |-> TRUE, objs |-> rowObjs, genre |-> genreTable,
                   joining |-> joining, log |-> m2mLog]
    /\ UNCHANGED <<rowObjs, genreTable, serial, joining, m2mOut,
                   transaction_exists, m2mLog, m2mPc>>

\* target.remove_m2m(*rows, m2m=Band.genres) is awaited: run() checks the
\* rows and collects their ids; a row of the wrong table raises at once and
\* without a row id it returns at once; otherwise the coroutine is suspended
\* at `await ...delete().where(...).run()`.
RemoveM2M(target, rows) ==
    LET r == M2MRemoveRelated_run(Db, target, rows)
        log == M2MRemoveRelated_run_log(Db, target, rows, transaction_exists)
        suspended == Len(log) > 1
    IN  /\ m2mPc.at = "idle"
        /\ m2mOut' = [op |-> "remove", target |-> target, rows |-> rows,
                      kind |-> IF suspended THEN "running" ELSE r.kind,
                      err |-> IF r.kind = "error" THEN r.value ELSE "",
                      value |-> {}, inserted |-> {}]
        /\ m2mLog' = <<log[1]>>
        /\ m2mPc' = IF suspended
                    THEN [at |-> "delete", own |-> FALSE, before |-> Db]
                    ELSE NoM2MPc(Db)
        /\ UNCHANGED <<rowObjs, genreTable, serial, joining,
                       transaction_exists, m2mSeen>>

\* The DELETE of the suspended remove_m2m is executed and run() returns.
RemoveM2MDelete ==
    LET r == M2MRemoveRelated_run(Db, m2mOut.target, m2mOut.rows)
    IN  /\ m2mPc.at = "delete"
        /\ joining' = r.db.joining
        /\ m2mOut' = [m2mOut EXCEPT !.kind = r.kind]
        /\ m2mLog' = M2MRemoveRelated_run_log(Db, m2mOut.target, m2mOut.rows,
                                              transaction_exists)
        /\ m2mPc' = NoM2MPc([Db EXCEPT !.joining = r.db.joining])
        /\ m2mSeen' = NoM2MSeen
        /\ UNCHANGED <<rowObjs, genreTable, serial, transaction_exists>>

\* target.get_m2m(Band.genres) is awaited: run() builds the query and is
\* suspended at `await secondary_table.objects().where(...)`.
GetM2M(target) ==
    /\ m2mPc.at = "idle"
    /\ m2mOut' = [op |-> "get", target |-> target, rows |-> <<>>,
                  kind |-> "running", err |-> "", value |-> {},
                  inserted |-> {}]
    /\ m2mLog' = <<M2MGetRelated_run_log(Db, target, transaction_exists)[1]>>
    /\ m2mPc' = [at |-> "select", own |-> FALSE, before |-> Db]
    /\ UNCHANGED <<rowObjs, genreTable, serial, joining, transaction_exists,
                   m2mSeen>>

\* The SELECT of the suspended get_m2m is executed and run() returns the
\* rows.
GetM2MSelect ==
    /\ m2mPc.at = "select"
    /\ m2mOut' = [m2mOut EXCEPT
                    !.kind = "ok",
                    !.value = M2MGetRelated_run(Db, m2mOut.target)]
    /\ m2mLog' = M2MGetRelated_run_log(Db, m2mOut.target, transaction_exists)
    /\ m2mPc' = NoM2MPc(Db)
    /\ m2mSeen' = NoM2MSeen
    /\ UNCHANGED <<rowObjs, genreTable, serial, joining, transaction_exists>>

\* The caller enters `async with engine.transaction():`.
EnterTransaction ==
    /\ m2mPc.at = "idle"
    /\ ~transaction_exists
    /\ transaction_exists' = TRUE
    /\ UNCHANGED <<rowObjs, genreTable, serial, joining, m2mOut, m2mLog,
                   m2mPc, m2mSeen>>

\* The caller leaves its transaction block normally: the transaction commits.
ExitTransaction ==
    /\ m2mPc.at = "idle"
    /\ transaction_exists
    /\ transaction_exists' = FALSE
    /\ UNCHANGED <<rowObjs, genreTable, serial, joining, m2mOut, m2mLog,
                   m2mPc, m2mSeen>>

(***************************************************************************)
(* Part 5 - many-to-many role resolution                                   *)
(*                                                                         *)
(* M2M(joining_table, foreign_key_columns=None) declared on table          *)
(* M2MTable, for joining tables with any foreign key columns.              *)
(***************************************************************************)

MaxFks == 3         \* foreign key columns of a joining table, and columns
                    \* passed as foreign_key_columns, at most

RoleTables == {"band", "genre", "venue"}
ColumnKinds == {"ForeignKey", "Varchar"}

\* The i-th column of a column list: its name is its position.
ColumnAt(prefix, i, kind, references) ==
    [name |-> <<prefix, i>>, kind |-> kind, references |-> references]

\* Table._meta.foreign_key_columns of the possible joining tables.
JoiningTables ==
    UNION {{[i \in 1..k |-> ColumnAt("fk", i, "ForeignKey", f[i])] :
                f \in [1..k -> RoleTables]} : k \in 0..MaxFks}

\* The values passed as foreign_key_columns; None and the empty list are
\* both <<>>.
ForeignKeyColumnArgs ==
    UNION {{[i \in 1..k |-> ColumnAt("arg", i, f[i][1], f[i][2])] :
                f \in [1..k -> {<<"ForeignKey", "band">>,
                                <<"ForeignKey", "genre">>,
                                <<"Varchar", "">>}]} : k \in 0..MaxFks}

\* M2M.__init__
M2M_init(fk_columns) ==
    IF /\ fk_columns # <<>>
       /\ \/ Len(fk_columns) # 2
          \/ ~ \A i \in 1..Len(fk_columns) : fk_columns[i].kind = "ForeignKey"
    THEN Raise("ValueError")
    ELSE Ok([_foreign_key_columns |-> fk_columns])

\* M2MMeta.foreign_key_columns: the stored columns, or else the first two
\* foreign key columns of the joining table (which are then stored).
M2MMeta_foreign_key_columns(meta, table_fks) ==
    IF meta._foreign_key_columns = <<>>
    THEN SubSeq(table_fks, 1, IF Len(table_fks) < 2 THEN Len(table_fks) ELSE 2)
    ELSE meta._foreign_key_columns

\* The role lookups M2MGetRelated.run makes before it builds its query:
\* secondary_table, secondary_foreign_key, primary_foreign_key.
M2MGetRelated_roles(table, fks) ==
    LET secondary == M2MMeta_secondary_foreign_key(table, fks)
        primary == M2MMeta_primary_foreign_key(table, fks)
    IN  IF secondary.kind = "error" THEN Raise(secondary.value)
        ELSE IF primary.kind = "error" THEN Raise(primary.value)
        ELSE Ok(<<primary.value, secondary.value>>)

NoMeta == [built |-> "no", _foreign_key_columns |-> <<>>]
NoRoleOut == [op |-> "none", kind |-> "ok", err |-> "", cols |-> <<>>]

StartRoles ==
    /\ joiningTable \in JoiningTables
    /\ m2mMeta = NoMeta
    /\ roleOut = NoRoleOut

IdleRoles ==
    /\ joiningTable = <<>>
    /\ m2mMeta = NoMeta
    /\ roleOut = NoRoleOut

\* genres = M2M(joining table, foreign_key_columns=fk_columns)
NewM2M(fk_columns) ==
    LET r == M2M_init(fk_columns)
    IN  /\ m2mMeta.built = "no"
        /\ m2mMeta' = IF r.kind = "ok"
                      THEN [built |-> "ok",
                            _foreign_key_columns |-> r.value._foreign_key_columns]
                      ELSE [built |-> "error", _foreign_key_columns |-> <<>>]
        /\ roleOut' = [op |-> "init", kind |-> r.kind,
                       err |-> IF r.kind = "error" THEN r.value ELSE "",
                       cols |-> <<>>]
        /\ UNCHANGED joiningTable

\* The outcome record of a role lookup with result r.
RoleOutOf(op, r) ==
    [op |-> op, kind |-> r.kind,
     err |-> IF r.kind = "error" THEN r.value ELSE "",
     cols |-> IF r.kind = "error" THEN <<>>
              ELSE IF op = "get" THEN r.value ELSE <<r.value>>]

\* Band.genres._meta.primary_foreign_key
PrimaryForeignKey ==
    LET fks == M2MMeta_foreign_key_columns(m2mMeta, joiningTable)
    IN  /\ m2mMeta.built = "ok"
        /\ m2mMeta' = [m2mMeta EXCEPT !._foreign_key_columns = fks]
        /\ roleOut' = RoleOutOf("primary",
                                M2MMeta_primary_foreign_key(M2MTable, fks))
        /\ UNCHANGED joiningTable

\* Band.genres._meta.secondary_foreign_key
SecondaryForeignKey ==
    LET fks == M2MMeta_foreign_key_columns(m2mMeta, joiningTable)
    IN  /\ m2mMeta.built = "ok"
        /\ m2mMeta' = [m2mMeta EXCEPT !._foreign_key_columns = fks]
        /\ roleOut' = RoleOutOf("secondary",
                                M2MMeta_secondary_foreign_key(M2MTable, fks))
        /\ UNCHANGED joiningTable

\* row.get_m2m(Band.genres), up to the point where its query is built.
GetM2MRoles ==
    LET fks == M2MMeta_foreign_key_columns(m2mMeta, joiningTable)
    IN  /\ m2mMeta.built = "ok"
        /\ m2mMeta' = [m2mMeta EXCEPT !._foreign_key_columns = fks]
        /\ roleOut' = RoleOutOf("get", M2MGetRelated_roles(M2MTable, fks))
        /\ UNCHANGED joiningTable

(***************************************************************************)
(* Part 6 - many-to-many select sub-query (M2MSelect)                      *)
(***************************************************************************)

MaxSelected == 2    \* columns passed to Band.genres(...) at most

\* The columns of the related table, in declaration order, with their
\* column class.
RelatedColumns ==
    << [name |-> "id", class |-> "Serial"],
       [name |-> "name", class |-> "Varchar"],
       [name |-> "rating", class |-> "Integer"],
       [name |-> "created", class |-> "Timestamp"],
       [name |-> "active", class |-> "Boolean"],
       [name |-> "meta", class |-> "JSON"],
       [name |-> "extra", class |-> "JSONB"],
       [name |-> "label", class |-> "ForeignKey"] >>

RelatedPrimaryKey == "id"

\* column.__class__.value_type: the class attribute (on ForeignKey it is a
\* property object, not a type).
ClassValueType(class) ==
    CASE class \in {"Serial", "Integer"} -> "int"
      [] class \in {"Varchar", "JSON", "JSONB"} -> "str"
      [] class = "Timestamp" -> "datetime"
      [] class = "Boolean" -> "bool"
      [] OTHER -> "property"

\* M2MSelect.__init__
M2MSelect_init(columns, as_list, load_json) ==
    [columns |-> columns, as_list |-> as_list, load_json |-> load_json,
     serialisation_safe |->
        \A i \in 1..Len(columns) :
            /\ ClassValueType(columns[i].class) \in {"int", "str"}
            /\ columns[i].class \notin {"JSON", "JSONB"}]

\* M2M.__call__
M2M_call(columns, as_list, load_json) ==
    LET columns_ == IF columns = <<>> THEN RelatedColumns ELSE columns
    IN  IF as_list /\ Len(columns_) # 1 THEN Raise("ValueError")
        ELSE Ok(M2MSelect_init(columns_, as_list, load_json))

\* The names of the given columns, in order.
ColumnNames(columns) == [i \in 1..Len(columns) |-> columns[i].name]

\* A rendered sub-query: the aggregation it uses and the columns of the
\* related table it selects.
SubQuery(form, selected) ==
    [kind |-> "ok", err |-> "", form |-> form, selected |-> selected]

\* A defect: a flattened list of a column that is not serialisation safe
\* is replaced by a list of primary keys.
M2MSelect_get_select_string_safe_list(sel, engine_type) ==
    IF engine_type \in {"postgres", "cockroach"}
    THEN IF ~sel.serialisation_safe
         THEN SubQuery("ARRAY", <<RelatedPrimaryKey>>)
         ELSE IF sel.as_list
         THEN SubQuery("ARRAY", <<sel.columns[1].name>>)
         ELSE SubQuery("JSON_AGG", ColumnNames(sel.columns))
    ELSE IF engine_type = "sqlite"
    THEN IF Len(sel.columns) > 1 \/ ~sel.serialisation_safe
         THEN SubQuery("group_concat", <<RelatedPrimaryKey>>)
         ELSE SubQuery("group_concat", <<sel.columns[1].name>>)
    ELSE [kind |-> "error", err |-> "ValueError", form |-> "", selected |-> <<>>]

\* M2MSelect.get_select_string
M2MSelect_get_select_string(sel, engine_type) ==
    IF engine_type \in {"postgres", "cockroach"}
    THEN IF sel.as_list
         THEN SubQuery("ARRAY", <<sel.columns[1].name>>)
         ELSE IF ~sel.serialisation_safe
         THEN SubQuery("ARRAY", <<RelatedPrimaryKey>>)
         ELSE SubQuery("JSON_AGG", ColumnNames(sel.columns))
    ELSE IF engine_type = "sqlite"
    THEN IF Len(sel.columns) > 1 \/ ~sel.serialisation_safe
         THEN SubQuery("group_concat", <<RelatedPrimaryKey>>)
         ELSE SubQuery("group_concat", <<sel.columns[1].name>>)
    ELSE [kind |-> "error", err |-> "ValueError", form |-> "", selected |-> <<>>]

\* The column lists a caller can pass: distinct columns of the related
\* table, in any order.
ColumnArgs ==
    {s \in UNION {[1..k -> {RelatedColumns[i] : i \in DOMAIN RelatedColumns}] :
                    k \in 0..MaxSelected} :
        \A i, j \in DOMAIN s : i # j => s[i] # s[j]}

NoSelect == [built |-> "no", requested |-> <<>>, columns |-> <<>>,
             as_list |-> FALSE, load_json |-> FALSE,
             serialisation_safe |-> FALSE]

NoSelectOut == [op |-> "none", engine_type |-> "", kind |-> "ok", err |-> "",
                form |-> "", selected |-> <<>>]

StartSelect ==
    /\ m2mSelect = NoSelect
    /\ selectOut = NoSelectOut

IdleSelect ==
    /\ m2mSelect = [built |-> "idle"]
    /\ selectOut = NoSelectOut

\* Band.genres(*columns, as_list=..., load_json=...)
CallM2M(columns, as_list, load_json) ==
    LET r == M2M_call(columns, as_list, load_json)
    IN  /\ m2mSelect.built = "no"
        /\ m2mSelect' =
              IF r.kind = "ok"
              THEN [built |-> "ok", requested |-> columns,
                    columns |-> r.value.columns, as_list |-> r.value.as_list,
                    load_json |-> r.value.load_json,
                    serialisation_safe |-> r.value.serialisation_safe]
              ELSE [NoSelect EXCEPT !.built = "error", !.requested = columns,
                                    !.as_list = as_list, !.load_json = load_json]
        /\ selectOut' = [NoSelectOut EXCEPT !.op = "call", !.kind = r.kind,
                            !.err = IF r.kind = "error" THEN r.value ELSE ""]

\* The select renders the sub-query for the engine of its table.
GetSelectString(engine_type) ==
    LET r == M2MSelect_get_select_string(m2mSelect, engine_type)
    IN  /\ m2mSelect.built = "ok"
        /\ selectOut' = [op |-> "get_select_string", engine_type |-> engine_type,
                         kind |-> r.kind, err |-> r.err, form |-> r.form,
                         selected |-> r.selected]
        /\ UNCHANGED m2mSelect

(***************************************************************************)
(* Part 7 - declaring a relationship column, and its column / value type   *)
(*                                                                         *)
(*   column = ForeignKey(references, default=None, null=True)              *)
(* where the referenced table has a primary key of a given column class,   *)
(* which is also the resolved target column.                               *)
(***************************************************************************)

TargetClasses ==
    {"Serial", "BigSerial", "PrimaryKey", "Integer", "BigInt", "SmallInt",
     "UUID", "Varchar"}

\* How the referenced table is given.
ReferenceKinds == {"class", "LazyTableReference", "str"}

\* Values passed as default: None, an int, a str that is no uuid.
DefaultArgs == {"None", "5", "'x'"}

\* The marker of a keyword argument that was not passed.
Ellipsis == "..."

\* Callables passed as default: one that returns None, one that returns an
\* int.
CallableDefaults == {"lambda: None", "lambda: 5"}

TypeOf(default) ==
    CASE default = "None" -> "NoneType"
      [] default \in {"5", "0"} -> "int"
      [] default \in CallableDefaults -> "function"
      [] OTHER -> "str"

\* isinstance(column of class `class`, base)
IsInstance(class, base) ==
    \/ class = base
    \/ base = "Serial" /\ class \in {"BigSerial", "PrimaryKey"}
    \/ base = "Integer" /\ class \in {"BigInt", "SmallInt"}

\* Column._validate_default
Column_validate_default(default, allowed_types) ==
    IF \/ default = "None" /\ "None" \in allowed_types
       \/ TypeOf(default) \in allowed_types
    THEN Ok(TRUE)
    ELSE IF default \in CallableDefaults THEN Ok(TRUE)
    ELSE Raise("ValueError")

\* Column.__init__: default is the keyword argument, or Ellipsis.
Column_init(default, null) ==
    IF default = "None" /\ ~null THEN Raise("ValueError") ELSE Ok(TRUE)

\* Integer.__init__ (also BigInt, SmallInt)
Integer_init(default, null) ==
    IF Column_validate_default(default, {"int", "None"}).kind = "error"
    THEN Raise("ValueError")
    ELSE Column_init(default, null)

\* Varchar.__init__
Varchar_init(default, null) ==
    IF Column_validate_default(default, {"str", "None"}).kind = "error"
    THEN Raise("ValueError")
    ELSE Column_init(default, null)

\* UUID.__init__: a str default must be a valid uuid.
UUID_init(default, null) ==
    IF Column_validate_default(default, {"UUID4", "UUID", "str", "Enum",
                                         "NoneType"}).kind = "error"
    THEN Raise("ValueError")
    ELSE IF TypeOf(default) = "str" THEN Raise("ValueError")
    ELSE Column_init(default, null)

\* ForeignKey.__init__ for a referenced table whose primary key has class
\* pk_class.
ForeignKey_init(reference_kind, pk_class, default, null) ==
    LET validation ==
            IF reference_kind # "class" THEN Ok(TRUE)
            ELSE IF IsInstance(pk_class, "Serial") THEN Integer_init(default, null)
            ELSE IF IsInstance(pk_class, "Integer") THEN Integer_init(default, null)
            ELSE IF pk_class = "UUID" THEN UUID_init(default, null)
            ELSE Varchar_init(default, null)
    IN  IF validation.kind = "error" THEN validation
        ELSE Column_init(Ellipsis, null)

\* column.value_type of a column of the given class.
Column_value_type(class) ==
    CASE class = "Varchar" -> "str"
      [] class = "UUID" -> "uuid.UUID"
      [] OTHER -> "int"

\* A defect: the Serial test is made before the BigSerial test.
ForeignKey_column_type_serial_first(target_class, engine_type) ==
    IF IsInstance(target_class, "Serial")
    THEN Column_column_type("Integer", engine_type)
    ELSE IF IsInstance(target_class, "BigSerial")
    THEN Column_column_type("BigInt", engine_type)
    ELSE Column_column_type(target_class, engine_type)

\* ForeignKey.column_type
ForeignKey_column_type(target_class, engine_type) ==
    IF IsInstance(target_class, "BigSerial")
    THEN Column_column_type("BigInt", engine_type)
    ELSE IF IsInstance(target_class, "Serial")
    THEN Column_column_type("Integer", engine_type)
    ELSE Column_column_type(target_class, engine_type)

\* ForeignKey.value_type
ForeignKey_value_type(target_class) == Column_value_type(target_class)

NoDecl == [built |-> "no", reference_kind |-> "", target |-> "",
           default |-> "", null |-> TRUE]

NoDeclOut == [op |-> "none", engine_type |-> "", kind |-> "ok", value |-> ""]

StartDecl ==
    /\ fkDecl = NoDecl
    /\ declOut = NoDeclOut

IdleDecl ==
    /\ fkDecl = [built |-> "idle"]
    /\ declOut = NoDeclOut

\* manager = ForeignKey(references, default=default, null=null)
NewForeignKey(reference_kind, target, default, null) ==
    LET r == ForeignKey_init(reference_kind, target, default, null)
    IN  /\ fkDecl.built = "no"
        /\ fkDecl' = [built |-> r.kind, reference_kind |-> reference_kind,
                      target |-> target, default |-> default, null |-> null]
        /\ declOut' = [op |-> "init", engine_type |-> "", kind |-> r.kind,
                       value |-> IF r.kind = "error" THEN r.value ELSE ""]

\* Band.manager.column_type, with the tables bound to the given engine.
ColumnType(engine_type) ==
    LET r == ForeignKey_column_type(fkDecl.target, engine_type)
    IN  /\ fkDecl.built = "ok"
        /\ declOut' = [op |-> "column_type", engine_type |-> engine_type,
                       kind |-> r.kind, value |-> r.value]
        /\ UNCHANGED fkDecl

\* Band.manager.value_type
ValueType ==
    /\ fkDecl.built = "ok"
    /\ declOut' = [op |-> "value_type", engine_type |-> "", kind |-> "ok",
                   value |-> ForeignKey_value_type(fkDecl.target)]
    /\ UNCHANGED fkDecl

(***************************************************************************)
(* Part 8 - requesting and running the statements of a Query or a DDL      *)
(***************************************************************************)

MaxStatements == 2  \* statements a renderer returns at most

RunnerTypes == {"Query", "DDL"}

\* The builders: a Query or DDL subclass overriding the given renderer
\* properties, each of which returns nstmts statements.
Runners ==
    [type : RunnerTypes, class : SUBSET Renderers, nstmts : 1..MaxStatements]

\* The unfrozen Query object of a builder of type Query.
AsQuery(b) ==
    [class |-> b.class, nstmts |-> b.nstmts, clauses |-> <<>>,
     is_frozen |-> FALSE, frozen_querystrings |-> <<>>]

\* The outcome of requesting statements: the statements, or the exception
\* class with the tokens of its message.
Statements_ok(statements) ==
    [kind |-> "ok", value |-> "", message |-> <<>>, statements |-> statements]

Statements_error(exception, message) ==
    [kind |-> "error", value |-> exception, message |-> message,
     statements |-> <<>>]

\* The messages of the exceptions raised by Query.querystrings, DDL.ddl and
\* the engine_type properties.
MessageOf(exception, engine_type) ==
    CASE exception = "ValueError" -> <<"Engine isn't defined.">>
      [] exception = "Exception" ->
            <<"No querystring found for the ", engine_type, " engine.">>
      [] OTHER -> <<>>

\* DDL.<dialect>_ddl / default_ddl of a DDL class: NotImplementedError
\* unless the class overrides renderer r.
DDL_renderer(b, r) ==
    IF r \in b.class
    THEN Ok([k \in 1..b.nstmts |-> <<"ALTER", r, StatementTags[k]>>])
    ELSE Raise("NotImplementedError")

\* A defect: a missing dialect renderer is not replaced by the default one.
DDL_ddl_no_fallback(b, e) ==
    IF e = "none"
    THEN Statements_error("ValueError", MessageOf("ValueError", e))
    ELSE IF e \in Dialects
    THEN IF DDL_renderer(b, e).kind = "ok"
         THEN Statements_ok(DDL_renderer(b, e).value)
         ELSE Statements_error("NotImplementedError", <<>>)
    ELSE Statements_error("Exception", MessageOf("Exception", e))

\* DDL.ddl
DDL_ddl(b, e) ==
    IF e = "none"
    THEN Statements_error("ValueError", MessageOf("ValueError", e))
    ELSE IF e \in Dialects
    THEN IF DDL_renderer(b, e).kind = "ok"
         THEN Statements_ok(DDL_renderer(b, e).value)
         ELSE IF DDL_renderer(b, "default").kind = "ok"
         THEN Statements_ok(DDL_renderer(b, "default").value)
         ELSE Statements_error("NotImplementedError", <<>>)
    ELSE Statements_error("Exception", MessageOf("Exception", e))

\* A defect: a dialect without any renderer is reported by the exception
\* that names the engine.
Query_statements_names_dialect(b, e) ==
    LET r == Query_querystrings(AsQuery(b), e)
    IN  IF r.kind = "ok" THEN Statements_ok(r.value)
        ELSE IF r.value = "NotImplementedError"
        THEN Statements_error("Exception", MessageOf("Exception", e))
        ELSE Statements_error(r.value, MessageOf(r.value, e))

\* Query.querystrings of an unfrozen query, with the exception's message.
Query_statements(b, e) ==
    LET r == Query_querystrings(AsQuery(b), e)
    IN  IF r.kind = "ok" THEN Statements_ok(r.value)
        ELSE Statements_error(r.value, MessageOf(r.value, e))

\* builder.querystrings / builder.ddl
StatementsOf(b, e) ==
    IF b.type = "Query" THEN Query_statements(b, e) ELSE DDL_ddl(b, e)

\* The outcome of a run: the statements the engine received, in order (the
\* last one failed if the run ended in EngineError), and how many times the
\* statement list was rendered.
RunResult(kind, value, message, log, n_renders) ==
    [kind |-> kind, value |-> value, message |-> message, log |-> log,
     n_renders |-> n_renders]

\* Sending the statements one after the other to an engine that fails on
\* the fail_at-th statement it receives (never, if fail_at = 0).
SendAll(statements, fail_at, n_renders) ==
    IF fail_at \in 1..Len(statements)
    THEN RunResult("error", "EngineError", <<>>,
                   SubSeq(statements, 1, fail_at), n_renders)
    ELSE RunResult("ok", "", <<>>, statements, n_renders)

\* A defect: a statement that failed is sent once more before giving up.
Query__run_retry(b, e, fail_at) ==
    IF e = "none"
    THEN RunResult("error", "ValueError", <<"has no db defined in _meta">>,
                   <<>>, 0)
    ELSE LET r == Query_statements(b, e)
             sent_ == SendAll(r.statements, fail_at, 1)
         IN  IF r.kind = "error"
             THEN RunResult("error", r.value, r.message, <<>>, 0)
             ELSE IF sent_.kind = "error"
             THEN [sent_ EXCEPT !.log = Append(@, r.statements[fail_at])]
             ELSE sent_

\* Query._run: _validate (nothing in the base class), the engine check, the
\* statements are rendered once and sent one after the other.
Query__run(b, e, fail_at) ==
    IF e = "none"
    THEN RunResult("error", "ValueError", <<"has no db defined in _meta">>,
                   <<>>, 0)
    ELSE LET r == Query_statements(b, e)
         IN  IF r.kind = "error"
             THEN RunResult("error", r.value, r.message, <<>>, 0)
             ELSE SendAll(r.statements, fail_at, 1)

\* A defect: the statements are rendered before the engine is looked at.
DDL_run_renders_first(b, e, fail_at) ==
    LET r == DDL_ddl([b EXCEPT !.type = "DDL"],
                     IF e = "none" THEN "postgres" ELSE e)
    IN  IF r.kind = "error"
        THEN RunResult("error", r.value, r.message, <<>>, 0)
        ELSE IF e = "none"
        THEN RunResult("error", "ValueError", <<"has no db defined in _meta">>,
                       <<>>, 1)
        ELSE SendAll(r.statements, fail_at, 2)

\* DDL.run: the engine check; self.ddl is rendered for the length test and
\* again for the statements that are sent.
DDL_run(b, e, fail_at) ==
    IF e = "none"
    THEN RunResult("error", "ValueError", <<"has no db defined in _meta">>,
                   <<>>, 0)
    ELSE LET r == DDL_ddl(b, e)
         IN  IF r.kind = "error"
             THEN RunResult("error", r.value, r.message, <<>>, 0)
             ELSE SendAll(r.statements, fail_at, 2)

NoRunOut == [op |-> "none", fail_at |-> 0, kind |-> "ok", value |-> "",
             message |-> <<>>, statements |-> <<>>]

NoRunSeen == [seen |-> FALSE, log |-> <<>>]

StartRun ==
    /\ runner \in Runners
    /\ runEngine \in EngineTypes
    /\ runOut = NoRunOut
    /\ engineLog = <<>>
    /\ renders = 0
    /\ runSeen = NoRunSeen

IdleRun ==
    /\ runner = [type |-> "idle"]
    /\ runEngine = "none"
    /\ runOut = NoRunOut
    /\ engineLog = <<>>
    /\ renders = 0
    /\ runSeen = NoRunSeen

\* builder.run() was awaited and has not returned yet: it is suspended in
\* `await engine.run_querystring(...)` / `await engine.run_ddl(...)` for the
\* last statement of engineLog.
Running == runOut.kind = "running"

\* The whole of the running run(): its outcome and every statement the
\* engine receives until it returns.
WholeRun ==
    IF runner.type = "Query"
    THEN Query__run(runner, runEngine, runOut.fail_at)
    ELSE DDL_run(runner, runEngine, runOut.fail_at)

\* builder.querystrings / builder.ddl
RequestStatements ==
    LET r == StatementsOf(runner, runEngine)
    IN  /\ ~Running
        /\ runOut' = [op |-> "statements", fail_at |-> 0, kind |-> r.kind,
                      value |-> r.value, message |-> r.message,
                      statements |-> r.statements]
        /\ engineLog' = <<>>
        /\ renders' = IF r.kind = "ok" THEN 1 ELSE 0
        /\ UNCHANGED <<runner, runEngine, runSeen>>

\* await builder.run(), on an engine that fails on the fail_at-th statement:
\* the engine check and the rendering, which raise at once, and then the
\* first statement is handed to the engine and run() is suspended until the
\* engine answers.
Run(fail_at) ==
    LET r == IF runner.type = "Query" THEN Query__run(runner, runEngine, fail_at)
             ELSE DDL_run(runner, runEngine, fail_at)
    IN  /\ ~Running
        /\ runOut' = [op |-> "run", fail_at |-> fail_at,
                      kind |-> IF r.log = <<>> THEN r.kind ELSE "running",
                      value |-> IF r.log = <<>> THEN r.value ELSE "",
                      message |-> IF r.log = <<>> THEN r.message ELSE <<>>,
                      statements |-> <<>>]
        /\ engineLog' = IF r.log = <<>> THEN <<>> ELSE <<r.log[1]>>
        /\ renders' = r.n_renders
        /\ runSeen' = NoRunSeen
        /\ UNCHANGED <<runner, runEngine>>

\* The engine answers the statement run() is waiting for: its error ends
\* run(); otherwise the next statement is handed to the engine and run() is
\* suspended again, or, after the last statement, run() returns.
RunResume ==
    LET r == WholeRun
    IN  /\ Running
        /\ IF Len(engineLog) < Len(r.log)
           THEN /\ engineLog' = Append(engineLog, r.log[Len(engineLog) + 1])
                /\ UNCHANGED <<runOut, runSeen>>
           ELSE /\ runOut' = [runOut EXCEPT !.kind = r.kind,
                                            !.value = r.value,
                                            !.message = r.message]
                /\ runSeen' = NoRunSeen
                /\ UNCHANGED engineLog
        /\ UNCHANGED <<runner, runEngine, renders>>

\* A second task on the same event loop gets control while run() is
\* suspended and looks at the statements the engine has received so far
\* (what it saw is kept until run() returns).
ObserveRun ==
    /\ Running
    /\ runSeen' = [seen |-> TRUE, log |-> engineLog]
    /\ UNCHANGED <<runner, runEngine, runOut, engineLog, renders>>

(***************************************************************************)
(* Part 9 - reversing a chain of relationship columns (ForeignKey.reverse) *)
(***************************************************************************)

\* The longest path of relationship columns that is reversed.
MaxHops == 3

\* The tables of a path: the relationship column of PathTables[i] refers to
\* PathTables[i + 1].
PathTables == <<"treasurer", "fan_club", "band", "label", "country">>

\* The relationship column of the i-th table of the path, declared unique
\* or not, with a target column or none ("None": the primary key).
PathColumn(i, unique, target_column) ==
    [table |-> PathTables[i], name |-> PathTables[i + 1], unique |-> unique,
     references |-> PathTables[i + 1], target_column |-> target_column]

\* The i-th relationship columns the schema may declare.
PathColumns(i) ==
    {PathColumn(i, unique, target_column) :
        unique \in BOOLEAN, target_column \in {"None", "name"}}

\* Treasurer.fan_club._.band ...: the column reached after n hops, with the
\* columns travelled through as its call_chain.
Traversals(n) ==
    {[self |-> hops[n], call_chain |-> SubSeq(hops, 1, n - 1)] :
        hops \in {h \in [1..n -> UNION {PathColumns(i) : i \in 1..n}] :
                     \A i \in 1..n : h[i] \in PathColumns(i)}}

\* ForeignKeyMeta.resolved_target_column of a relationship column: the
\* column of the referenced table it points at.
resolved_target_column(fk) ==
    [table |-> fk.references,
     name |-> ForeignKeyMeta_resolved_target_column(fk)]

\* Column.join_on: a virtual relationship column that stands for the given
\* column of its table and refers to the table and column of `column`.
Column_join_on(target, column) ==
    [table |-> target.table, name |-> target.name, unique |-> FALSE,
     references |-> column.table, target_column |-> column.name]

\* A defect: the remaining hops are kept in their original order.
ForeignKey_reverse_same_order(fk) ==
    IF ~fk.self.unique \/ \E i \in 1..Len(fk.call_chain) : ~fk.call_chain[i].unique
    THEN Raise("ValueError")
    ELSE LET foreign_keys == fk.call_chain \o <<fk.self>>
             root_foreign_key == foreign_keys[1]
             rest == Tail(foreign_keys)
         IN  Ok([self |-> Column_join_on(resolved_target_column(root_foreign_key),
                                         root_foreign_key),
                 call_chain |->
                     [k \in 1..Len(rest) |->
                         Column_join_on(resolved_target_column(rest[k]),
                                        rest[k])]])

\* ForeignKey.reverse
ForeignKey_reverse(fk) ==
    IF ~fk.self.unique \/ \E i \in 1..Len(fk.call_chain) : ~fk.call_chain[i].unique
    THEN Raise("ValueError")
    ELSE LET foreign_keys == fk.call_chain \o <<fk.self>>
             root_foreign_key == foreign_keys[1]
             rest == Tail(foreign_keys)
         IN  Ok([self |-> Column_join_on(resolved_target_column(root_foreign_key),
                                         root_foreign_key),
                 call_chain |->
                     [k \in 1..Len(rest) |->
                         Column_join_on(
                             resolved_target_column(rest[Len(rest) - k + 1]),
                             rest[Len(rest) - k + 1])]])

NoReverseOut == [op |-> "none", kind |-> "ok", column |-> <<>>, error |-> ""]

StartReverse ==
    /\ revFk \in UNION {Traversals(n) : n \in 1..MaxHops}
    /\ revOut = NoReverseOut

IdleReverse ==
    /\ revFk = [self |-> "idle"]
    /\ revOut = NoReverseOut

\* column.reverse(); a column that was produced is kept as a one-element
\* sequence.
Reverse ==
    LET r == ForeignKey_reverse(revFk)
    IN  /\ revOut' = [op |-> "reverse", kind |-> r.kind,
                      column |-> IF r.kind = "ok" THEN <<r.value>> ELSE <<>>,
                      error |-> IF r.kind = "ok" THEN "" ELSE r.value]
        /\ UNCHANGED revFk

(***************************************************************************)
(* Part 10 - declaring a column and the default value used at insert time  *)
(***************************************************************************)

\* The column classes that are declared: the integer family, Varchar, and
\* ForeignKey.
DeclaredClasses == {"Integer", "BigInt", "SmallInt", "Varchar", "ForeignKey"}

\* What is passed as default: nothing (Ellipsis), a value, or a callable.
PassedDefaults == {Ellipsis} \cup DefaultArgs \cup CallableDefaults

\* The default of the class's __init__ signature.
SignatureDefault(class) ==
    CASE class = "Varchar" -> "''"
      [] class = "ForeignKey" -> "None"
      [] OTHER -> "0"

\* The default argument __init__ works with.
DefaultArgument(class, default) ==
    IF default = Ellipsis THEN SignatureDefault(class) ELSE default

\* The declarations: a class, the default and null arguments, and for a
\* ForeignKey how the referenced table is given and the class of its
\* primary key.
Declarations ==
    [class : DeclaredClasses \ {"ForeignKey"}, default : PassedDefaults,
     null : BOOLEAN, reference_kind : {""}, pk_class : {""}]
    \cup
    [class : {"ForeignKey"}, default : PassedDefaults, null : BOOLEAN,
     reference_kind : ReferenceKinds, pk_class : {"Serial", "Varchar"}]

\* <class>.__init__ with the given arguments: accepted, or the error.
Declare(decl) ==
    CASE decl.class = "Varchar" ->
            Varchar_init(DefaultArgument(decl.class, decl.default), decl.null)
      [] decl.class = "ForeignKey" ->
            ForeignKey_init(decl.reference_kind, decl.pk_class,
                            DefaultArgument(decl.class, decl.default),
                            decl.null)
      [] OTHER ->
            Integer_init(DefaultArgument(decl.class, decl.default), decl.null)

\* Column.get_default_value: self.default, or what it returns when it is
\* callable.
Column_get_default_value(decl) ==
    LET default == DefaultArgument(decl.class, decl.default)
    IN  IF default = "lambda: None" THEN "None"
        ELSE IF default = "lambda: 5" THEN "5"
        ELSE default

NoColumn == [built |-> "no", class |-> "", default |-> "", null |-> TRUE,
             reference_kind |-> "", pk_class |-> ""]

NoColumnOut == [op |-> "none", value |-> ""]

StartDefault ==
    /\ colDecl = NoColumn
    /\ colOut = NoColumnOut

IdleDefault ==
    /\ colDecl = [built |-> "idle"]
    /\ colOut = NoColumnOut

\* A column is declared in a table class body.
DeclareColumn(decl) ==
    /\ colDecl.built = "no"
    /\ colDecl' = [built |-> IF Declare(decl).kind = "ok" THEN "ok"
                             ELSE Declare(decl).value,
                   class |-> decl.class, default |-> decl.default,
                   null |-> decl.null, reference_kind |-> decl.reference_kind,
                   pk_class |-> decl.pk_class]
    /\ colOut' = [op |-> "declare", value |-> ""]

\* column.get_default_value(), as an insert without a value for the column
\* does.
GetDefaultValue ==
    /\ colDecl.built = "ok"
    /\ colOut' = [op |-> "get_default_value",
                  value |-> Column_get_default_value(colDecl)]
    /\ UNCHANGED colDecl

(***************************************************************************)
(* Part 11 - adding a timedelta to a column (TimedeltaDelegate)            *)
(***************************************************************************)

\* How many of the smallest and of the largest microseconds components are
\* tried.
MaxMicroseconds == 2500

\* The largest microseconds component a timedelta holds.
TopMicroseconds == 999999

Microseconds ==
    (0..MaxMicroseconds) \cup ((TopMicroseconds - MaxMicroseconds)..TopMicroseconds)

MicrosecondsPerMillisecond == 1000
MicrosecondsPerSecond == 1000000
SecondsPerDay == 86400

\* The columns a timedelta is added to.
TimedeltaColumns == {"Timestamp", "Timestamptz", "Date", "Interval", "Integer"}

\* datetime.timedelta values, normalised as Python keeps them.
Timedeltas ==
    [days : {0, 1}, seconds : {0, 5}, microseconds : Microseconds]

\* Python's round() of n / d for n >= 0, d > 0: to the nearest integer,
\* halves to the even one.
RoundDiv(n, d) ==
    LET q == n \div d
        r == n % d
    IN  IF r + r < d THEN q
        ELSE IF r + r > d THEN q + 1
        ELSE IF q % (1 + 1) = 0 THEN q
        ELSE q + 1

\* value * -1: timedelta(-days, -seconds, -microseconds), normalised by the
\* constructor (microseconds carry into seconds, seconds into days).
Negated(value) ==
    LET us == 0 - value.microseconds
        s == (0 - value.seconds) + (us \div MicrosecondsPerSecond)
    IN  [days |-> (0 - value.days) + (s \div SecondsPerDay),
         seconds |-> s % SecondsPerDay,
         microseconds |-> us % MicrosecondsPerSecond]

\* What was rendered: the kind of expression, and the interval it carries.
Rendered_interval(form, strftime_format, operator, value) ==
    [kind |-> "ok", error |-> "", form |-> form,
     strftime_format |-> strftime_format, operator |-> operator,
     days |-> value.days, seconds |-> value.seconds,
     microseconds |-> value.microseconds]

Raised_interval(error) ==
    [kind |-> "error", error |-> error, form |-> "", strftime_format |-> "",
     operator |-> "", days |-> 0, seconds |-> 0, microseconds |-> 0]

\* A defect: the precision test truncates instead of rounding, so that
\* every timedelta passes.
TimedeltaDelegate_get_querystring_truncates(column, operator, value, engine_type) ==
    IF engine_type \in {"postgres", "cockroach"}
    THEN Rendered_interval("INTERVAL", "", operator, value)
    ELSE IF engine_type = "sqlite"
    THEN IF column = "Interval"
         THEN Rendered_interval("CAST", "", operator, value)
         ELSE IF column \notin {"Timestamp", "Timestamptz", "Date"}
         THEN Raised_interval("ValueError: unsupported column")
         ELSE Rendered_interval(
                  "strftime",
                  IF column = "Date" THEN "%Y-%m-%d" ELSE "%Y-%m-%d %H:%M:%f",
                  "", IF operator = "-" THEN Negated(value) ELSE value)
    ELSE Raised_interval("ValueError: unrecognised engine")

\* TimedeltaDelegate.get_querystring, for a value that is a timedelta.
TimedeltaDelegate_get_querystring(column, operator, value, engine_type) ==
    IF engine_type \in {"postgres", "cockroach"}
    THEN Rendered_interval("INTERVAL", "", operator, value)
    ELSE IF engine_type = "sqlite"
    THEN IF column = "Interval"
         THEN Rendered_interval("CAST", "", operator, value)
         ELSE IF /\ column \in {"Timestamp", "Timestamptz"}
                 /\ RoundDiv(value.microseconds, MicrosecondsPerMillisecond)
                       * MicrosecondsPerMillisecond # value.microseconds
         THEN Raised_interval("ValueError: precision")
         ELSE IF column \notin {"Timestamp", "Timestamptz", "Date"}
         THEN Raised_interval("ValueError: unsupported column")
         ELSE Rendered_interval(
                  "strftime",
                  IF column = "Date" THEN "%Y-%m-%d" ELSE "%Y-%m-%d %H:%M:%f",
                  "", IF operator = "-" THEN Negated(value) ELSE value)
    ELSE Raised_interval("ValueError: unrecognised engine")

NoDeltaOut == [op |-> "none"] @@ Raised_interval("")

StartDelta ==
    /\ deltaIn \in [column : TimedeltaColumns, value : Timedeltas,
                    engine_type : Dialects]
    /\ deltaOut = NoDeltaOut

IdleDelta ==
    /\ deltaIn = [column |-> "idle"]
    /\ deltaOut = NoDeltaOut

\* column + value, column - value in an update on the given engine.
AddTimedelta(operator) ==
    /\ deltaOut' = [op |-> operator]
                   @@ TimedeltaDelegate_get_querystring(
                          deltaIn.column, operator, deltaIn.value,
                          deltaIn.engine_type)
    /\ UNCHANGED deltaIn

(***************************************************************************)
(* Part 12 - post-processing the rows of a query (Query._process_results)  *)
(***************************************************************************)

\* The largest number of rows the engine returns.
MaxResultRows == 2

\* The largest number of selected columns.
MaxResultColumns == 2

\* The JSON text the database returns, and what decoding it yields.
JsonTexts == {"{\"a\": 1}", "[1, 2]"}

\* load_json(value): the structured value of a JSON text.
encoding_load_json(value) ==
    CASE value = "{\"a\": 1}" -> "dict(a=1)"
      [] value = "[1, 2]" -> "list(1, 2)"
      [] OTHER -> "JSONDecodeError"

\* The columns that can be selected: class, name and alias.
ResultColumns ==
    [class : {"JSON"}, name : {"facilities"}, _alias : {"None", "f"}]
    \cup [class : {"JSONB"}, name : {"facilities_b"}, _alias : {"None"}]
    \cup [class : {"Varchar"}, name : {"name"}, _alias : {"None"}]
    \cup [class : {"JSONQueryString"}, name : {"arrow"}, _alias : {"None", "a"}]

\* The key a selected column has in a row.
ResultKey(column) ==
    IF column._alias # "None" THEN column._alias ELSE column.name

RECURSIVE ResultKeys(_)
ResultKeys(columns) ==
    IF columns = <<>> THEN {}
    ELSE {ResultKey(Head(columns))} \cup ResultKeys(Tail(columns))

\* Selections: each column under a key of its own.
Selections ==
    {columns \in UNION {[1..n -> ResultColumns] : n \in 1..MaxResultColumns} :
        Cardinality(ResultKeys(columns)) = Len(columns)}

\* The values the database returns for a column.
DatabaseValues(column) ==
    IF column.class = "Varchar" THEN {"None", "Pythonistas"}
    ELSE {"None"} \cup JsonTexts

\* The column of a selection that has the given key.
ColumnOfKey(columns, key) ==
    CHOOSE column \in {columns[i] : i \in DOMAIN columns} : ResultKey(column) = key

\* The rows transform_response_to_dicts gives for a selection.
RowsOf(columns) ==
    LET rows == {row \in [ResultKeys(columns) -> {"None", "Pythonistas"} \cup JsonTexts] :
                    \A key \in DOMAIN row :
                       row[key] \in DatabaseValues(ColumnOfKey(columns, key))}
    IN  UNION {[1..n -> rows] : n \in 0..MaxResultRows}

\* The table's JSON columns, used when the query selects no columns itself
\* (an Objects query).
TableJsonColumns ==
    <<[class |-> "JSON", name |-> "facilities", _alias |-> "None"],
      [class |-> "JSONB", name |-> "facilities_b", _alias |-> "None"]>>

\* The names whose values are decoded, for a query with a columns delegate:
\* the aliased JSONQueryStrings first, then the JSON and JSONB columns.
RECURSIVE AliasedJsonQueryStrings(_)
AliasedJsonQueryStrings(columns) ==
    IF columns = <<>> THEN <<>>
    ELSE (IF Head(columns).class = "JSONQueryString" /\ Head(columns)._alias # "None"
          THEN <<Head(columns)._alias>> ELSE <<>>)
         \o AliasedJsonQueryStrings(Tail(columns))

RECURSIVE JsonColumnsOf(_)
JsonColumnsOf(columns) ==
    IF columns = <<>> THEN <<>>
    ELSE (IF Head(columns).class \in {"JSON", "JSONB"}
          THEN <<Head(columns)>> ELSE <<>>)
         \o JsonColumnsOf(Tail(columns))

json_column_names(has_columns_delegate, selected_columns) ==
    LET json_columns == IF has_columns_delegate THEN JsonColumnsOf(selected_columns)
                        ELSE TableJsonColumns
        names == [i \in DOMAIN json_columns |-> ResultKey(json_columns[i])]
    IN  (IF has_columns_delegate THEN AliasedJsonQueryStrings(selected_columns)
         ELSE <<>>) \o names

\* One row with the values of the named columns decoded; None stays None and
\* a name the row does not have is skipped.
DecodedRow(row, names) ==
    [key \in DOMAIN row |->
        IF /\ \E i \in DOMAIN names : names[i] = key
           /\ row[key] # "None"
        THEN encoding_load_json(row[key])
        ELSE row[key]]

\* The instance made of a row.
Hydrated(row, nested) ==
    [object |-> TRUE, nested |-> nested, columns |-> row]

\* A defect: the JSON text is decoded whether or not the output asks for it.
Query__process_results_always_decodes(q, results) ==
    LET raw == results
        names == json_column_names(q.has_columns_delegate, q.selected_columns)
        decoded == [i \in DOMAIN raw |-> DecodedRow(raw[i], names)]
        handled == decoded
    IN  [received |-> decoded,
         response |->
            IF q.has_output /\ q.output.as_objects
            THEN [i \in DOMAIN handled |-> Hydrated(handled[i], q.output.nested)]
            ELSE handled]

\* Query._process_results: the rows as dicts, decoded when the output asks
\* for load_json, handed to response_handler (which returns them as they
\* are unless a subclass overrides it), then made into objects when the
\* output asks for objects.  received is what response_handler was given.
Query__process_results(q, results) ==
    LET raw == results
        names == json_column_names(q.has_columns_delegate, q.selected_columns)
        decoded == IF q.has_output /\ q.output.load_json
                   THEN [i \in DOMAIN raw |-> DecodedRow(raw[i], names)]
                   ELSE raw
        handled == decoded
    IN  [received |-> decoded,
         response |->
            IF q.has_output /\ q.output.as_objects
            THEN [i \in DOMAIN handled |-> Hydrated(handled[i], q.output.nested)]
            ELSE handled]

NoResultsOut == [op |-> "none", received |-> <<>>, response |-> <<>>]

\* A Select has a columns delegate and an output delegate; an Objects query
\* has an output delegate asking for objects and no columns delegate, its
\* rows holding every column of the table; other queries have neither.
SelectQueries ==
    [type : {"Select"}, has_columns_delegate : {TRUE},
     selected_columns : Selections, has_output : {TRUE},
     output : [load_json : BOOLEAN, as_objects : {FALSE}, nested : {FALSE}]]

ObjectsQueries ==
    [type : {"Objects"}, has_columns_delegate : {FALSE},
     selected_columns : {TableJsonColumns}, has_output : {TRUE},
     output : [load_json : BOOLEAN, as_objects : {TRUE}, nested : BOOLEAN]]

StartResults ==
    /\ resQuery \in SelectQueries \cup ObjectsQueries
    /\ resRows \in RowsOf(resQuery.selected_columns)
    /\ resOut = NoResultsOut

IdleResults ==
    /\ resQuery = [type |-> "idle"]
    /\ resRows = <<>>
    /\ resOut = NoResultsOut

\* The engine has returned the rows: the query processes them.
ProcessResults ==
    /\ resOut.op = "none"
    /\ resOut' = [op |-> "_process_results"]
                 @@ Query__process_results(resQuery, resRows)
    /\ UNCHANGED <<resQuery, resRows>>

(***************************************************************************)
(* Specifications                                                          *)
(***************************************************************************)

InitFK == StartFK /\ IdleQuery /\ IdleAlter /\ IdleM2M /\ IdleRoles /\ IdleSelect /\ IdleDecl /\ IdleRun
    /\ IdleReverse
    /\ IdleDefault
    /\ IdleDelta
    /\ IdleResults

NextFK ==
    \/ \E name \in AttrNames \ {"next"} : Resolve(name) /\ UNCHANGED <<queryVars, alterVars, m2mVars, roleVars, selectVars, declVars, runVars, revVars, defaultVars, deltaVars, resVars>>
    \/ Follow /\ UNCHANGED <<queryVars, alterVars, m2mVars, roleVars, selectVars, declVars, runVars, revVars, defaultVars, deltaVars, resVars>>
    \/ Restart /\ UNCHANGED <<queryVars, alterVars, m2mVars, roleVars, selectVars, declVars, runVars, revVars, defaultVars, deltaVars, resVars>>

SpecFK == InitFK /\ [][NextFK]_vars

InitQuery == StartQuery /\ IdleFK /\ IdleAlter /\ IdleM2M /\ IdleRoles /\ IdleSelect /\ IdleDecl /\ IdleRun
    /\ IdleReverse
    /\ IdleDefault
    /\ IdleDelta
    /\ IdleResults

NextQuery ==
    \/ \E c \in ClauseNames : AddClause(c) /\ UNCHANGED <<fkVars, alterVars, m2mVars, roleVars, selectVars, declVars, runVars, revVars, defaultVars, deltaVars, resVars>>
    \/ \E e \in EngineTypes : SwitchEngine(e) /\ UNCHANGED <<fkVars, alterVars, m2mVars, roleVars, selectVars, declVars, runVars, revVars, defaultVars, deltaVars, resVars>>
    \/ StrQuery /\ UNCHANGED <<fkVars, alterVars, m2mVars, roleVars, selectVars, declVars, runVars, revVars, defaultVars, deltaVars, resVars>>
    \/ RunQuery /\ UNCHANGED <<fkVars, alterVars, m2mVars, roleVars, selectVars, declVars, runVars, revVars, defaultVars, deltaVars, resVars>>
    \/ Freeze /\ UNCHANGED <<fkVars, alterVars, m2mVars, roleVars, selectVars, declVars, runVars, revVars, defaultVars, deltaVars, resVars>>
    \/ StrFrozen /\ UNCHANGED <<fkVars, alterVars, m2mVars, roleVars, selectVars, declVars, runVars, revVars, defaultVars, deltaVars, resVars>>
    \/ RunFrozen /\ UNCHANGED <<fkVars, alterVars, m2mVars, roleVars, selectVars, declVars, runVars, revVars, defaultVars, deltaVars, resVars>>
    \/ \E results \in BOOLEAN : ResumeRun(results) /\ UNCHANGED <<fkVars, alterVars, m2mVars, roleVars, selectVars, declVars, runVars, revVars, defaultVars, deltaVars, resVars>>
    \/ \E name \in FrozenAttrNames : GetattrFrozen(name) /\ UNCHANGED <<fkVars, alterVars, m2mVars, roleVars, selectVars, declVars, runVars, revVars, defaultVars, deltaVars, resVars>>

SpecQuery == InitQuery /\ [][NextQuery]_vars

InitAlter == StartAlter /\ IdleFK /\ IdleQuery /\ IdleM2M /\ IdleRoles /\ IdleSelect /\ IdleDecl /\ IdleRun
    /\ IdleReverse
    /\ IdleDefault
    /\ IdleDelta
    /\ IdleResults

NextAlter ==
    \E c \in BuilderCalls : Call(c) /\ UNCHANGED <<callLog, rendering, warnings>>
                               /\ UNCHANGED <<fkVars, queryVars, m2mVars, roleVars, selectVars, declVars, runVars, revVars, defaultVars, deltaVars, resVars>>

SpecAlter == InitAlter /\ [][NextAlter]_vars

\* A migration: the manager makes the type changes, and the other
\* operations go to the builder as they are.
NextMigrate ==
    \/ \E c \in BuilderCalls \ TypeChanges :
          Call(c) /\ UNCHANGED <<callLog, rendering, warnings>>
          /\ UNCHANGED <<fkVars, queryVars, m2mVars, roleVars, selectVars, declVars, runVars, revVars, defaultVars, deltaVars, resVars>>
    \/ \E c \in TypeChanges :
          MigrateColumnType(c) /\ UNCHANGED <<callLog, rendering>>
          /\ UNCHANGED <<fkVars, queryVars, m2mVars, roleVars, selectVars, declVars, runVars, revVars, defaultVars, deltaVars, resVars>>

SpecMigrate == InitAlter /\ [][NextMigrate]_vars

NextRender ==
    \/ \E c \in BuilderCalls :
          LoggedCall(c)
          /\ UNCHANGED <<fkVars, queryVars, m2mVars, roleVars, selectVars, declVars, runVars, revVars, defaultVars, deltaVars, resVars>>
    \/ \E d \in Dialects :
          Render(d)
          /\ UNCHANGED <<fkVars, queryVars, m2mVars, roleVars, selectVars, declVars, runVars, revVars, defaultVars, deltaVars, resVars>>

SpecRender == InitAlter /\ [][NextRender]_vars

InitM2M == StartM2M /\ IdleFK /\ IdleQuery /\ IdleAlter /\ IdleRoles /\ IdleSelect /\ IdleDecl /\ IdleRun
    /\ IdleReverse
    /\ IdleDefault
    /\ IdleDelta
    /\ IdleResults

NextM2M ==
    \/ \E target \in BandObjs, rows \in RowSeqs(GenreObjs, MaxRows) :
          AddM2M(target, rows) /\ UNCHANGED <<fkVars, queryVars, alterVars, roleVars, selectVars, declVars, runVars, revVars, defaultVars, deltaVars, resVars>>
    \/ AddM2MBegin /\ UNCHANGED <<fkVars, queryVars, alterVars, roleVars, selectVars, declVars, runVars, revVars, defaultVars, deltaVars, resVars>>
    \/ AddM2MInsertRelated /\ UNCHANGED <<fkVars, queryVars, alterVars, roleVars, selectVars, declVars, runVars, revVars, defaultVars, deltaVars, resVars>>
    \/ AddM2MInsertJoining /\ UNCHANGED <<fkVars, queryVars, alterVars, roleVars, selectVars, declVars, runVars, revVars, defaultVars, deltaVars, resVars>>
    \/ AddM2MExit /\ UNCHANGED <<fkVars, queryVars, alterVars, roleVars, selectVars, declVars, runVars, revVars, defaultVars, deltaVars, resVars>>
    \/ ObserveM2M /\ UNCHANGED <<fkVars, queryVars, alterVars, roleVars, selectVars, declVars, runVars, revVars, defaultVars, deltaVars, resVars>>
    \/ RemoveM2MDelete /\ UNCHANGED <<fkVars, queryVars, alterVars, roleVars, selectVars, declVars, runVars, revVars, defaultVars, deltaVars, resVars>>
    \/ GetM2MSelect /\ UNCHANGED <<fkVars, queryVars, alterVars, roleVars, selectVars, declVars, runVars, revVars, defaultVars, deltaVars, resVars>>
    \/ \E target \in BandObjs, rows \in RowSeqs(GenreObjs \cup {"b1"}, MaxRows) :
          RemoveM2M(target, rows) /\ UNCHANGED <<fkVars, queryVars, alterVars, roleVars, selectVars, declVars, runVars, revVars, defaultVars, deltaVars, resVars>>
    \/ \E target \in BandObjs :
          GetM2M(target) /\ UNCHANGED <<fkVars, queryVars, alterVars, roleVars, selectVars, declVars, runVars, revVars, defaultVars, deltaVars, resVars>>
    \/ EnterTransaction /\ UNCHANGED <<fkVars, queryVars, alterVars, roleVars, selectVars, declVars, runVars, revVars, defaultVars, deltaVars, resVars>>
    \/ ExitTransaction /\ UNCHANGED <<fkVars, queryVars, alterVars, roleVars, selectVars, declVars, runVars, revVars, defaultVars, deltaVars, resVars>>

SpecM2M == InitM2M /\ [][NextM2M]_vars

InitRoles == StartRoles /\ IdleFK /\ IdleQuery /\ IdleAlter /\ IdleM2M /\ IdleSelect /\ IdleDecl /\ IdleRun
    /\ IdleReverse
    /\ IdleDefault
    /\ IdleDelta
    /\ IdleResults

NextRoles ==
    \/ \E fk_columns \in ForeignKeyColumnArgs :
          NewM2M(fk_columns) /\ UNCHANGED <<fkVars, queryVars, alterVars, m2mVars, selectVars, declVars, runVars, revVars, defaultVars, deltaVars, resVars>>
    \/ PrimaryForeignKey /\ UNCHANGED <<fkVars, queryVars, alterVars, m2mVars, selectVars, declVars, runVars, revVars, defaultVars, deltaVars, resVars>>
    \/ SecondaryForeignKey /\ UNCHANGED <<fkVars, queryVars, alterVars, m2mVars, selectVars, declVars, runVars, revVars, defaultVars, deltaVars, resVars>>
    \/ GetM2MRoles /\ UNCHANGED <<fkVars, queryVars, alterVars, m2mVars, selectVars, declVars, runVars, revVars, defaultVars, deltaVars, resVars>>

SpecRoles == InitRoles /\ [][NextRoles]_vars

InitSelect == StartSelect /\ IdleFK /\ IdleQuery /\ IdleAlter /\ IdleM2M /\ IdleRoles /\ IdleDecl /\ IdleRun
    /\ IdleReverse
    /\ IdleDefault
    /\ IdleDelta
    /\ IdleResults

NextSelect ==
    \/ \E columns \in ColumnArgs, as_list \in BOOLEAN, load_json \in BOOLEAN :
          CallM2M(columns, as_list, load_json)
          /\ UNCHANGED <<fkVars, queryVars, alterVars, m2mVars, roleVars, declVars, runVars, revVars, defaultVars, deltaVars, resVars>>
    \/ \E engine_type \in EngineTypes \ {"none"} :
          GetSelectString(engine_type)
          /\ UNCHANGED <<fkVars, queryVars, alterVars, m2mVars, roleVars, declVars, runVars, revVars, defaultVars, deltaVars, resVars>>

SpecSelect == InitSelect /\ [][NextSelect]_vars

InitDecl ==
    StartDecl /\ IdleFK /\ IdleQuery /\ IdleAlter /\ IdleM2M /\ IdleRoles /\ IdleSelect
    /\ IdleRun
    /\ IdleReverse
    /\ IdleDefault
    /\ IdleDelta
    /\ IdleResults

NextDecl ==
    \/ \E reference_kind \in ReferenceKinds, target \in TargetClasses,
          default \in DefaultArgs, null \in BOOLEAN :
          NewForeignKey(reference_kind, target, default, null)
          /\ UNCHANGED <<fkVars, queryVars, alterVars, m2mVars, roleVars, selectVars, runVars, revVars, defaultVars, deltaVars, resVars>>
    \/ \E engine_type \in EngineTypes :
          ColumnType(engine_type)
          /\ UNCHANGED <<fkVars, queryVars, alterVars, m2mVars, roleVars, selectVars, runVars, revVars, defaultVars, deltaVars, resVars>>
    \/ ValueType
          /\ UNCHANGED <<fkVars, queryVars, alterVars, m2mVars, roleVars, selectVars, runVars, revVars, defaultVars, deltaVars, resVars>>

SpecDecl == InitDecl /\ [][NextDecl]_vars

InitRun ==
    StartRun /\ IdleFK /\ IdleQuery /\ IdleAlter /\ IdleM2M /\ IdleRoles /\ IdleSelect
    /\ IdleDecl
    /\ IdleReverse
    /\ IdleDefault
    /\ IdleDelta
    /\ IdleResults

NextRun ==
    \/ RequestStatements
          /\ UNCHANGED <<fkVars, queryVars, alterVars, m2mVars, roleVars, selectVars, declVars, revVars, defaultVars, deltaVars, resVars>>
    \/ \E fail_at \in 0..MaxStatements :
          Run(fail_at)
          /\ UNCHANGED <<fkVars, queryVars, alterVars, m2mVars, roleVars, selectVars, declVars, revVars, defaultVars, deltaVars, resVars>>
    \/ RunResume
          /\ UNCHANGED <<fkVars, queryVars, alterVars, m2mVars, roleVars, selectVars, declVars, revVars, defaultVars, deltaVars, resVars>>
    \/ ObserveRun
          /\ UNCHANGED <<fkVars, queryVars, alterVars, m2mVars, roleVars, selectVars, declVars, revVars, defaultVars, deltaVars, resVars>>

SpecRun == InitRun /\ [][NextRun]_vars

InitReverse ==
    StartReverse /\ IdleFK /\ IdleQuery /\ IdleAlter /\ IdleM2M /\ IdleRoles /\ IdleSelect
    /\ IdleDecl /\ IdleRun
    /\ IdleDefault
    /\ IdleDelta
    /\ IdleResults

NextReverse ==
    Reverse
    /\ UNCHANGED <<fkVars, queryVars, alterVars, m2mVars, roleVars, selectVars, declVars, runVars, defaultVars, deltaVars, resVars>>

SpecReverse == InitReverse /\ [][NextReverse]_vars

InitDefault ==
    StartDefault /\ IdleFK /\ IdleQuery /\ IdleAlter /\ IdleM2M /\ IdleRoles /\ IdleSelect
    /\ IdleDecl /\ IdleRun /\ IdleReverse
    /\ IdleDelta
    /\ IdleResults

NextDefault ==
    \/ \E decl \in Declarations :
          DeclareColumn(decl)
          /\ UNCHANGED <<fkVars, queryVars, alterVars, m2mVars, roleVars, selectVars, declVars, runVars, revVars, deltaVars, resVars>>
    \/ GetDefaultValue
          /\ UNCHANGED <<fkVars, queryVars, alterVars, m2mVars, roleVars, selectVars, declVars, runVars, revVars, deltaVars, resVars>>

SpecDefault == InitDefault /\ [][NextDefault]_vars

InitDelta ==
    StartDelta /\ IdleFK /\ IdleQuery /\ IdleAlter /\ IdleM2M /\ IdleRoles /\ IdleSelect
    /\ IdleDecl /\ IdleRun /\ IdleReverse /\ IdleDefault
    /\ IdleResults

NextDelta ==
    \E operator \in {"+", "-"} :
       AddTimedelta(operator)
       /\ UNCHANGED <<fkVars, queryVars, alterVars, m2mVars, roleVars, selectVars, declVars, runVars, revVars, defaultVars, resVars>>

SpecDelta == InitDelta /\ [][NextDelta]_vars

InitResults ==
    StartResults /\ IdleFK /\ IdleQuery /\ IdleAlter /\ IdleM2M /\ IdleRoles /\ IdleSelect
    /\ IdleDecl /\ IdleRun /\ IdleReverse /\ IdleDefault /\ IdleDelta

NextResults ==
    ProcessResults
    /\ UNCHANGED <<fkVars, queryVars, alterVars, m2mVars, roleVars, selectVars, declVars, runVars, revVars, defaultVars, deltaVars>>

SpecResults == InitResults /\ [][NextResults]_vars

(***************************************************************************)
(* Claims about the join-chain resolver                                    *)
(***************************************************************************)

\* Table reached after following the relationship columns of the schema k
\* times from table 0 (-1 when the schema has no such table).
RECURSIVE TableAfter(_, _)
TableAfter(s, k) ==
    IF k = 0 THEN 0
    ELSE LET t == TableAfter(s, k - 1)
         IN IF t = -1 THEN -1 ELSE SchemaDef(s).ref[t]

\* chain is the list of the first n relationship columns on the path from
\* table 0, in traversal order.
IsTraversedPath(chain, n) ==
    /\ Len(chain) = n
    /\ \A i \in 1..n :
          /\ heap.cols[chain[i]].isfk
          /\ heap.cols[chain[i]].name = "next"
          /\ heap.cols[chain[i]].table = TableAfter(schema, i - 1)
          /\ Len(heap.metas[heap.cols[chain[i]].meta].call_chain) = i - 1

\* C1: resolving a non-relationship column through an L-hop path (L = depth
\* of the held relationship column + 1) returns the column of table TL with
\* a join chain of exactly L elements, the traversed relationship columns in
\* order, for 1 <= L <= 10; the 11th hop raises the chain-too-long error.
C1_ChainHasLengthL ==
    /\ last.kind = "column" =>
          /\ last.depth + 1 \in 1..CallChainLimit
          /\ IsTraversedPath(last.chain, last.depth + 1)
          /\ last.table = TableAfter(schema, last.depth + 1)
          /\ last.colname = last.name
    /\ (last.name = "next" /\ last.depth = CallChainLimit - 1
            /\ TableAfter(schema, CallChainLimit + 1) # -1)
          => last.kind = "CallChainTooLong"
    /\ depth < CallChainLimit

\* A terminal column of T10 was resolved through a 10-hop path of the
\* linear schema.
C1_Witness ==
    /\ schema = "linear"
    /\ last.kind = "column"
    /\ last.table = CallChainLimit
    /\ Len(last.chain) = CallChainLimit

\* Every column object and ColumnMeta that exists before an access still
\* exists afterwards with the same call chain.
ChainsKept ==
    /\ Len(heap'.cols) >= Len(heap.cols)
    /\ Len(heap'.metas) >= Len(heap.metas)
    /\ \A c \in 1..Len(heap.cols) : heap'.cols[c].meta = heap.cols[c].meta
    /\ \A m \in 1..Len(heap.metas) :
          heap'.metas[m].call_chain = heap.metas[m].call_chain

\* A resolution of the same path as the first resolution ever made returns
\* a chain of the same length.
RepeatSameLength ==
    (last.kind = "column" /\ last.depth = first.depth
        /\ last.name = first.name) => Len(last.chain) = first.len

\* C2: traversing through a relationship column never changes the join
\* chain of an existing column (the referenced table's columns, the
\* traversed column, its stored proxy columns), and repeating a traversal
\* path returns a join chain of the same length as the first time.
C2_TraversalDoesNotMutate == [][ChainsKept]_vars /\ []RepeatSameLength

\* The path of the first resolution (at least two hops) was walked again
\* from the root and resolved a second time.
C2_Witness ==
    /\ passes = 2
    /\ first.depth >= 1
    /\ last.kind = "column"
    /\ last.depth = first.depth
    /\ last.name = first.name

(***************************************************************************)
(* Claims about frozen queries                                             *)
(***************************************************************************)

\* C3: every str() and every run of the frozen query uses the statement
\* list cached by freeze(): str() returns the text rendered at freeze time
\* (so two renderings are identical), and neither invokes a dialect
\* renderer again.  A run that found no engine sent nothing; a run that is
\* suspended, or that raised because the engine was taken away while it
\* was suspended, has sent a non-empty prefix of the cached statements;
\* a run that returned has sent exactly the cached statements.
C3_FrozenUsesCachedStatements ==
    (out.target = "frozen" /\ out.op \in {"str", "run"}) =>
        /\ ~rendered
        /\ out.op = "str" => (out.kind = "ok" /\ out.value = frozenText)
        /\ out.op = "run" =>
              \/ /\ out.kind = "error" /\ out.value = "ValueError"
                 /\ engine = "none"
                 /\ sent = <<>>
              \/ /\ \/ out.kind = "running"
                    \/ /\ out.kind = "error" /\ out.value = "AttributeError"
                       /\ engine = "none"
                 /\ sent # <<>>
                 /\ Len(sent) <= Len(frozen.querystrings)
                 /\ sent = SubSeq(frozen.querystrings, 1, Len(sent))
              \/ /\ out.kind = "ok"
                 /\ sent = frozen.querystrings
                 /\ JoinStatements(sent) = frozenText

\* The frozen query was rendered after the engine was taken away (or
\* replaced by an engine type that was never rendered for).
C3_Witness ==
    /\ out.target = "frozen"
    /\ out.op = "str"
    /\ engine \in {"none", "mysql"}
    /\ Len(query.clauses) > Len(frozen.clauses)

\* C4: on a FrozenQuery, looking up a clause-building method raises, and
\* the cached statement list never changes; the only names found are run,
\* run_sync (and the attribute holding the inner query).
C4_FrozenRejectsClauses ==
    frozen.set =>
        /\ JoinStatements(frozen.querystrings) = frozenText
        /\ out.op = "getattr" =>
              /\ out.value[1] \in ClauseNames => out.kind = "error"
              /\ out.kind = "ok" => out.value[1] \in {"run", "run_sync", "query"}

\* frozen.where was looked up and rejected.
C4_Witness ==
    /\ frozen.set
    /\ out.op = "getattr"
    /\ out.value[1] = "where"
    /\ out.kind = "error"

(***************************************************************************)
(* Claims about the Alter builder                                          *)
(***************************************************************************)

MultiClauseDialects == {"postgres", "cockroach"}

\* The clauses of a rendered multi-clause statement: the text after
\* ALTER TABLE <table>, split at the commas.
RECURSIVE SplitClauses(_, _)
SplitClauses(tokens, acc) ==
    IF Len(tokens) = 0 THEN IF acc = <<>> THEN <<>> ELSE <<acc>>
    ELSE IF Head(tokens) = ","
         THEN <<acc>> \o SplitClauses(Tail(tokens), <<>>)
         ELSE SplitClauses(Tail(tokens), Append(acc, Head(tokens)))

ClausesOf(statement) == SplitClauses(SubSeq(statement, 3, Len(statement)), <<>>)

\* The DROP TABLE statement asked for by the most recent drop_table call.
RequestedDrop ==
    <<"DROP TABLE">>
    \o (IF lastDrop[3] THEN <<"IF EXISTS">> ELSE <<>>)
    \o <<"band">>
    \o (IF lastDrop[2] THEN <<"CASCADE">> ELSE <<>>)

\* C5: once drop_table was called, rendering yields exactly one statement,
\* the DROP TABLE statement with the requested IF EXISTS / CASCADE, and no
\* clause of any other operation, on every dialect, whatever was added
\* before or after.
C5_DropTableShortCircuits ==
    lastDrop # <<>> =>
        \A d \in Dialects : Ddl(d) = Ok(<<RequestedDrop>>)

\* drop_table was the second of three calls; one operation was added before
\* it and one after it.
C5_Witness ==
    /\ lastDrop # <<>>
    /\ lastDrop[1] = 2
    /\ steps = 3
    /\ Len(ChainedOperations(alter["sqlite"])) = 2

AddClauseText == <<"ADD COLUMN", "members", "Integer">>
RenameClauseText == <<"RENAME COLUMN", "popularity", "TO", "rating">>
DropClauseText == <<"DROP COLUMN", "popularity">>

\* C6: after add_column, rename_column, drop_column (in that order) the
\* rendering has the ADD COLUMN, RENAME COLUMN and DROP COLUMN clauses in
\* that order: one statement with three comma-separated clauses on
\* Postgres / Cockroach, three statements on SQLite.
C6_AddRenameDropOrder ==
    phase = 3 =>
        /\ \A d \in MultiClauseDialects :
              Ddl(d) = Ok(<< <<"ALTER TABLE", "band">> \o AddClauseText
                             \o <<",">> \o RenameClauseText
                             \o <<",">> \o DropClauseText >>)
        /\ Ddl("sqlite") = Ok(<< <<"ALTER TABLE", "band">> \o AddClauseText,
                                 <<"ALTER TABLE", "band">> \o RenameClauseText,
                                 <<"ALTER TABLE", "band">> \o DropClauseText >>)

\* The three calls were made in that order.
C6_Witness == phase = 3 /\ steps = 3

\* C7 as stated: without drop_table, the multi-clause statement has exactly
\* one clause per operation-adding call.
C7_OneClausePerCall ==
    \A d \in MultiClauseDialects :
        (lastDrop = <<>> /\ Ddl(d).kind = "ok") =>
            Len(ClausesOf(Ddl(d).value[1])) = ncalls[d]

\* C7 (amended): without drop_table, the multi-clause statement has exactly
\* one clause per operation-adding call, except that a rename_table or
\* rename_constraint call replaces the earlier call of its kind: the number
\* of clauses is the number of calls minus the number of replaced ones, and
\* the rename clauses carry the names of the most recent call.
C7_OneClausePerKeptCall ==
    \A d \in MultiClauseDialects :
        (lastDrop = <<>> /\ Ddl(d).kind = "ok") =>
            /\ Len(Ddl(d).value) = 1
            /\ Len(ClausesOf(Ddl(d).value[1])) = ncalls[d] - overridden[d]
            /\ Len(alter[d]._rename_table) <= 1
            /\ Len(alter[d]._rename_constraint) <= 1

\* Two calls of the same rename kind and a third operation were rendered.
C7_Witness ==
    /\ lastDrop = <<>>
    /\ overridden["postgres"] = 1
    /\ ncalls["postgres"] = 3
    /\ Ddl("postgres").kind = "ok"

HeadOf(statement) == SubSeq(statement, 1, 2)

IsSetLengthClause(c) == Len(c) >= 3 /\ c[3] = "TYPE VARCHAR"

\* The SQLite statements are ALTER TABLE <table> followed by the given
\* clauses, one statement per clause, in order.
OneStatementPerClause(statements, clauses) ==
    /\ Len(statements) = Len(clauses)
    /\ \A i \in 1..Len(statements) :
          statements[i] = <<"ALTER TABLE", "band">> \o clauses[i]

BothRendered ==
    /\ lastDrop = <<>>
    /\ Ddl("sqlite").kind = "ok"
    /\ Ddl("postgres").kind = "ok"

\* C8 as stated: for the same calls, SQLite statement i is ALTER TABLE
\* <table> followed by the i-th clause of the multi-clause statement.
C8_SameClausesOnBothDialects ==
    BothRendered =>
        OneStatementPerClause(Ddl("sqlite").value,
                              ClausesOf(Ddl("postgres").value[1]))

\* A clause with the type name of an ALTER COLUMN ... TYPE <type> clause
\* left out: the type name is the dialect's own.
WithoutTypeName(c) ==
    IF Len(c) >= 4 /\ c[1] = "ALTER COLUMN" /\ c[3] = "TYPE"
    THEN [c EXCEPT ![4] = "<type>"]
    ELSE c

WithoutTypeNames(clauses) ==
    [i \in 1..Len(clauses) |-> WithoutTypeName(clauses[i])]

\* The clauses of the SQLite statements, each ALTER TABLE <table> <clause>.
StatementClauses(statements) ==
    [i \in 1..Len(statements) |-> SubSeq(statements[i], 3, Len(statements[i]))]

\* C8 (amended): for the same calls, the SQLite statements are ALTER TABLE
\* <table> followed by the clauses of the multi-clause statement other than
\* the set_length clauses, in the same order (set_length is skipped on
\* SQLite), each dialect writing its own type name in a column-type clause;
\* Postgres and Cockroach render the same clauses up to that type name.
C8_SameClausesExceptSetLength ==
    BothRendered =>
        /\ \A i \in 1..Len(Ddl("sqlite").value) :
              HeadOf(Ddl("sqlite").value[i]) = <<"ALTER TABLE", "band">>
        /\ WithoutTypeNames(StatementClauses(Ddl("sqlite").value)) =
              WithoutTypeNames(
                  SelectSeq(ClausesOf(Ddl("postgres").value[1]),
                            LAMBDA c : ~IsSetLengthClause(c)))
        /\ Len(Ddl("cockroach").value) = 1
        /\ WithoutTypeNames(ClausesOf(Ddl("cockroach").value[1])) =
              WithoutTypeNames(ClausesOf(Ddl("postgres").value[1]))

\* A set_length call and two other operations were rendered on both
\* dialects.
C8_Witness ==
    /\ BothRendered
    /\ Len(alter["postgres"]._set_length) = 1
    /\ Len(Ddl("sqlite").value) = 2

\* The set_column_type calls between the two auto-increment aliases.
SerialTypeChanges == {c \in TypeChanges : SerialTypeChange(c)}

\* The clauses or statements rendered by b on dialect d hold an
\* ALTER COLUMN ... TYPE clause for the column of call c.
RendersTypeChange(b, c, d) ==
    LET rendered_ == Alter_default_ddl(b, d)
        IsTypeChange(clause) ==
            /\ Len(clause) >= 3
            /\ SubSeq(clause, 1, 3) =
                  <<"ALTER COLUMN", column_name(c.old_column), "TYPE">>
    IN  /\ rendered_.kind = "ok"
        /\ IF d = "sqlite"
           THEN \E i \in 1..Len(rendered_.value) :
                   /\ Len(rendered_.value[i]) > Len(AlterTable)
                   /\ IsTypeChange(SubSeq(rendered_.value[i], Len(AlterTable) + 1,
                                          Len(rendered_.value[i])))
           ELSE \E i \in 1..Len(ClausesOf(rendered_.value[1])) :
                   IsTypeChange(ClausesOf(rendered_.value[1])[i])

\* C21: when a migration asks for a column type change between Serial and
\* BigSerial (in either direction), a warning is printed, the builders are
\* left as they were, and no dialect renders an ALTER COLUMN ... TYPE
\* clause or statement for that column.
C21_SerialTypeChangeSkipped ==
    [][\A c \in SerialTypeChanges :
          MigrateColumnType(c) =>
              /\ warnings' = Append(warnings, SerialWarning)
              /\ \A d \in Dialects :
                    /\ alter'[d] = alter[d]
                    /\ ~RendersTypeChange(alter'[d], c, d)]_vars

\* A migration asked for a change between Serial and BigSerial after
\* another operation was added, and the builders render without a type
\* change.
C21_Witness ==
    /\ warnings = <<SerialWarning>>
    /\ steps >= 1
    /\ lastDrop = <<>>
    /\ \A d \in Dialects :
          /\ alter[d]._set_column_type = <<>>
          /\ Ddl(d).kind = "ok"

\* C22: when every builder call made so far returned without an error,
\* rendering the builder raises no error on any dialect (the invalid
\* arguments were all rejected by the calls themselves).
C22_ErrorsOnlyAtBuildTime ==
    \A d \in Dialects :
        ncalls[d] = steps => Ddl(d).kind = "ok"

AddForeignKeyConstraintCalls ==
    {c \in BuilderCalls : c.m = "add_foreign_key_constraint"}

\* C23: add_foreign_key_constraint with a relationship column records the
\* constraint with the given referenced column, or else the column the
\* relationship declares as its target (the referenced table's primary key
\* when none was declared), and with the given referenced table, or else the
\* relationship's referenced table; with a column given by name and the
\* referenced column or table omitted it raises and leaves the batch as it
\* was.
C23_ForeignKeyConstraintDefaults ==
    [][\A c \in AddForeignKeyConstraintCalls :
          Call(c) => \A d \in Dialects :
             IF ~c.column.obj /\ "None" \in {c.referenced_table_name,
                                             c.referenced_column_name}
             THEN /\ alterErr'[d] = "ValueError"
                  /\ alter'[d] = alter[d]
             ELSE /\ alterErr'[d] = ""
                  /\ Len(alter'[d]._add_foreign_key_constraint) =
                        Len(alter[d]._add_foreign_key_constraint) + 1
                  /\ LET added == alter'[d]._add_foreign_key_constraint[
                                      Len(alter'[d]._add_foreign_key_constraint)]
                     IN  /\ added.foreign_key_column_name = c.column.name
                         /\ added.referenced_column_name =
                               IF c.referenced_column_name # "None"
                               THEN c.referenced_column_name
                               ELSE IF c.column.target_column # "None"
                               THEN c.column.target_column
                               ELSE "id"
                         /\ added.referenced_table_name =
                               IF c.referenced_table_name # "None"
                               THEN c.referenced_table_name
                               ELSE c.column.references]_vars

\* A constraint was added with the declared target column and the referenced
\* table of the relationship, and a later call by name was rejected.
C23_Witness ==
    /\ \A d \in Dialects : alterErr[d] = "ValueError"
    /\ Len(alter["postgres"]._add_foreign_key_constraint) = 1
    /\ alter["postgres"]._add_foreign_key_constraint[1].referenced_column_name = "name"
    /\ alter["postgres"]._add_foreign_key_constraint[1].referenced_table_name = "manager"
    /\ steps = 2

\* The builder methods in the order in which their clauses are emitted;
\* drop_constraint and drop_foreign_key_constraint add the same kind.
KindSequence ==
    << {"add_column"}, {"add_foreign_key_constraint"}, {"rename_column"},
       {"rename_table"}, {"rename_constraint"}, {"drop_column"},
       {"drop_constraint", "drop_foreign_key_constraint"}, {"drop_default"},
       {"set_column_type"}, {"set_unique"}, {"set_null"}, {"set_length"},
       {"set_default"}, {"set_digits"}, {"set_schema"} >>

\* The kinds of which only the most recent call is kept.
ReplacingKinds == {"rename_table", "rename_constraint"}

\* The logged calls of the i-th kind, in call order.
CallsOfKind(i) ==
    LET made == SelectSeq(callLog, LAMBDA c : c.m \in KindSequence[i])
    IN  IF KindSequence[i] \subseteq ReplacingKinds /\ made # <<>>
        THEN <<made[Len(made)]>>
        ELSE made

\* The clauses the given calls render on dialect d, each call taken alone
\* (none for a call that was rejected or skipped).
RECURSIVE ClausesOfCalls(_, _)
ClausesOfCalls(calls, d) ==
    IF calls = <<>> THEN <<>>
    ELSE LET alone == ChainedOperations(Apply(NewAlter, Head(calls), d).alter)
         IN  [i \in 1..Len(alone) |-> StatementDdl(alone[i], d).value]
             \o ClausesOfCalls(Tail(calls), d)

\* The clauses of the logged calls, kind after kind from the i-th on.
RECURSIVE ExpectedClauses(_, _)
ExpectedClauses(i, d) ==
    IF i > Len(KindSequence) THEN <<>>
    ELSE ClausesOfCalls(CallsOfKind(i), d) \o ExpectedClauses(i + 1, d)

\* The clauses rendered by the builder kept for dialect d.
RenderedClauses(d) ==
    IF d = "sqlite" THEN StatementClauses(Ddl(d).value)
    ELSE ClausesOf(Ddl(d).value[1])

\* The builder calls were all logged.
AllCallsLogged == Len(callLog) = steps

\* C29: the rendered clauses are those of the calls made, ordered by kind in
\* the fixed sequence add column, add foreign-key constraint, rename column,
\* rename table, rename constraint, drop column, drop constraint, drop
\* default, set column type, set unique, set nullable, set length, set
\* default, set digits, set schema, and within one kind by call order,
\* whatever the order of the calls.
C29_ClausesOrderedByKind ==
    \A d \in Dialects :
        (AllCallsLogged /\ lastDrop = <<>> /\ Ddl(d).kind = "ok") =>
            RenderedClauses(d) = ExpectedClauses(1, d)

\* drop_column was called before add_column, and ADD COLUMN is rendered
\* first.
C29_Witness ==
    /\ AllCallsLogged
    /\ Len(callLog) = 2
    /\ callLog[1].m = "drop_column"
    /\ callLog[2].m = "add_column"
    /\ Ddl("postgres").kind = "ok"
    /\ RenderedClauses("postgres") = <<AddClauseText, DropClauseText>>
    /\ RenderedClauses("sqlite") = <<AddClauseText, DropClauseText>>

\* The builder of dialect d is read again, no call having been made since
\* it was read last.
ReadAgain(d) == rendering.dialect = d /\ rendering.last.kind # "none"

\* C30 (as stated): reading builder.ddl returns what the previous reading
\* returned when no call was made in between, and leaves the operation
\* lists and the columns they refer to (name, owning table) as they were.
C30_RenderingSideEffectFree ==
    [][\A d \in Dialects :
          Render(d) =>
             /\ ReadAgain(d) => rendering'.last = rendering.last
             /\ alter' = alter]_vars

\* C30 (amended): reading builder.ddl returns what the previous reading
\* returned when no call was made in between, and leaves the operation
\* lists and the names of their columns as they were; but unless drop_table
\* was called it binds every new column of a set_column_type operation that
\* has no owning table to the table of the old column.
C30_RenderingRepeatableButBinds ==
    [][\A d \in Dialects :
          Render(d) =>
             /\ ReadAgain(d) => rendering'.last = rendering.last
             /\ \A e \in Dialects \ {d} : alter'[e] = alter[e]
             /\ [alter'[d] EXCEPT !._set_column_type = alter[d]._set_column_type]
                   = alter[d]
             /\ Len(alter'[d]._set_column_type) = Len(alter[d]._set_column_type)
             /\ \A i \in 1..Len(alter[d]._set_column_type) :
                   LET before == alter[d]._set_column_type[i]
                       after == alter'[d]._set_column_type[i]
                   IN  /\ [after EXCEPT !.new_column.table =
                                           before.new_column.table] = before
                       /\ after.new_column.table =
                             IF before.new_column.table = "None" /\ lastDrop = <<>>
                             THEN before.old_column.table
                             ELSE before.new_column.table]_vars

\* The builder with a column-type change was read twice on Postgres: both
\* readings returned the same statements, and the new column now belongs
\* to the table.
C30_Witness ==
    /\ rendering.dialect = "postgres"
    /\ rendering.previous.kind = "ok"
    /\ rendering.last = rendering.previous
    /\ Len(alter["postgres"]._set_column_type) = 1
    /\ alter["postgres"]._set_column_type[1].new_column.table = TableName
    /\ Len(alter["sqlite"]._set_column_type) = 1
    /\ alter["sqlite"]._set_column_type[1].new_column.table = "None"

(***************************************************************************)
(* Claims about the many-to-many operations                                *)
(***************************************************************************)

\* Whether the joining table links the row with key b to the related row
\* with key g.
Linked(j, b, g) == \E i \in 1..Len(j) : j[i].band = b /\ j[i].genre = g

\* The keys of the passed rows that are stored in the related table.
StoredKeys(rows) ==
    {rowObjs[rows[i]].pk : i \in 1..Len(rows)} \cap genreTable

RoundTripState ==
    /\ m2mOut.op = "add" /\ m2mOut.kind = "ok" =>
          StoredKeys(m2mOut.rows) \subseteq M2MGetRelated_run(Db, m2mOut.target)
    /\ m2mOut.op = "get" /\ m2mOut.kind = "ok" =>
          m2mOut.value = {g \in genreTable :
                            Linked(joining, rowObjs[m2mOut.target].pk, g)}
    /\ m2mOut.op = "remove" /\ m2mOut.kind = "ok" =>
          StoredKeys(m2mOut.rows) \cap M2MGetRelated_run(Db, m2mOut.target) = {}

\* The step is a many-to-many operation (m2mOut' describes it), not the
\* caller entering or leaving a transaction block.
OperationStep == transaction_exists' = transaction_exists

DetachKeepsOtherLinks ==
    OperationStep /\ m2mOut'.op = "remove" /\ m2mOut'.kind = "ok" =>
        \A b \in {rowObjs[o].pk : o \in BandObjs}, g \in genreTable :
            /\ Linked(joining, b, g)
            /\ ~(b = rowObjs[m2mOut'.target].pk /\ g \in StoredKeys(m2mOut'.rows))
            => Linked(joining', b, g)

\* C9: after attaching rows to a target row, get-related of that row returns
\* exactly the related rows linked to it through the joining table, the
\* attached ones included; after detaching a set of rows, get-related
\* returns none of them, and every other link is left as it was.
C9_AttachGetDetachRoundTrip ==
    []RoundTripState /\ [][DetachKeepsOtherLinks]_vars

\* The row objects among the passed rows that were not saved when the most
\* recent attach was called.
Unsaved(rows) == {rows[i] : i \in {k \in 1..Len(rows) :
                                     ~m2mPc.before.objs[rows[k]]._exists_in_db}}

\* An attach has returned: the state now against the state at its call.
AttachDone ==
    m2mOut.op = "add" /\ m2mOut.rows # <<>> /\ m2mPc.at = "idle" =>
        LET rows == m2mOut.rows
            target == m2mOut.target
            before == m2mPc.before
        IN  /\ m2mOut.kind = "ok"
            /\ before.genre \subseteq genreTable
            /\ genreTable \ before.genre = {rowObjs[o].pk : o \in Unsaved(rows)}
            /\ Cardinality(genreTable) =
                  Cardinality(before.genre) + Cardinality(Unsaved(rows))
            /\ \A o \in Unsaved(rows) : rowObjs[o]._exists_in_db
            /\ \A o \in DOMAIN rowObjs \ Unsaved(rows) : rowObjs[o] = before.objs[o]
            /\ Len(joining) = Len(before.joining) + Len(rows)
            /\ SubSeq(joining, 1, Len(before.joining)) = before.joining
            /\ \A i \in 1..Len(rows) :
                  joining[Len(before.joining) + i] =
                      [band |-> before.objs[target].pk,
                       genre |-> rowObjs[rows[i]].pk]
            /\ Unsaved(rows) = {} =>
                  genreTable = before.genre /\ serial = before.serial

\* C10: attach inserts into the related table exactly the passed rows that
\* are not saved yet, never a row that is already stored, and adds exactly
\* one joining row per passed row; attaching rows that are all saved inserts
\* nothing into the related table and only adds joining rows.
C10_AttachInsertsOnlyUnsaved == AttachDone

\* An attach of a saved and an unsaved row has just inserted the unsaved one.
C10_Witness ==
    /\ m2mOut.op = "add" /\ m2mOut.kind = "ok" /\ m2mPc.at = "idle"
    /\ Len(m2mOut.rows) = 2
    /\ Cardinality(m2mOut.inserted) = 1
    /\ Len(joining) >= 2

\* The statements in the log of the most recent operation.
Statements(log) ==
    {i \in DOMAIN log : log[i].ev \notin {"CALL", "BEGIN", "COMMIT", "ROLLBACK"}}

\* C11: attach, detach and fetch-related each run all their statements in
\* the engine's active transaction when there is one, and otherwise in a
\* transaction they open themselves and commit on success; no statement of
\* the three runs outside a transaction, and the two inserts of attach are
\* committed or rolled back together.
C11_AlwaysInsideATransaction ==
    m2mLog # <<>> =>
        LET existing == m2mLog[1].in_transaction
            opened == {i \in DOMAIN m2mLog : m2mLog[i].ev = "BEGIN"}
            closed == {i \in DOMAIN m2mLog : m2mLog[i].ev \in {"COMMIT", "ROLLBACK"}}
        IN  /\ \A i \in Statements(m2mLog) : m2mLog[i].in_transaction
            /\ existing => opened = {} /\ closed = {}
            /\ ~existing /\ Statements(m2mLog) # {} =>
                  /\ opened = {2}
                  /\ \A i \in Statements(m2mLog) : i > 2
                  /\ m2mPc.at = "idle" =>
                        /\ closed = {Len(m2mLog)}
                        /\ m2mOut.kind = "ok" => m2mLog[Len(m2mLog)].ev = "COMMIT"

\* C11 (amended): attach runs its statements in the engine's active
\* transaction when there is one, and otherwise in a transaction it opens
\* itself and commits on success, so its two inserts are committed or
\* rolled back together; detach and fetch-related send at most one
\* statement and never open a transaction: the statement runs in the
\* active transaction when there is one, and on its own otherwise.
C11_OnlyAttachOpensATransaction ==
    m2mLog # <<>> =>
        LET existing == m2mLog[1].in_transaction
            opened == {i \in DOMAIN m2mLog : m2mLog[i].ev = "BEGIN"}
            closed == {i \in DOMAIN m2mLog : m2mLog[i].ev \in {"COMMIT", "ROLLBACK"}}
        IN  /\ m2mOut.op = "add" =>
                /\ \A i \in Statements(m2mLog) : m2mLog[i].in_transaction
                /\ existing => opened = {} /\ closed = {}
                /\ ~existing /\ Statements(m2mLog) # {} =>
                      /\ opened = {2}
                      /\ \A i \in Statements(m2mLog) : i > 2
                /\ ~existing /\ m2mOut.rows # <<>> /\ m2mPc.at = "idle" =>
                      /\ opened = {2}
                      /\ closed = {Len(m2mLog)}
                      /\ m2mOut.kind = "ok" => m2mLog[Len(m2mLog)].ev = "COMMIT"
                /\ m2mPc.at # "idle" => closed = {}
            /\ m2mOut.op \in {"remove", "get"} =>
                /\ Cardinality(Statements(m2mLog)) <= 1
                /\ opened = {} /\ closed = {}
                /\ \A i \in Statements(m2mLog) : m2mLog[i].in_transaction = existing

\* An attach made without an active transaction has inserted a related row
\* and a joining row in a transaction of its own.
C11_Witness ==
    /\ m2mOut.op = "add" /\ m2mOut.kind = "ok" /\ m2mOut.inserted # {}
    /\ m2mPc.at = "idle"
    /\ m2mLog = <<Event("CALL", FALSE), Event("BEGIN", TRUE),
                  Event("INSERT related", TRUE), Event("INSERT joining", TRUE),
                  Event("COMMIT", TRUE)>>

(***************************************************************************)
(* Claims about many-to-many role resolution                               *)
(***************************************************************************)

\* The foreign key columns role resolution looks at: the pair passed as
\* foreign_key_columns, or else the first two of the joining table.
Considered ==
    IF m2mMeta._foreign_key_columns # <<>> THEN m2mMeta._foreign_key_columns
    ELSE IF Len(joiningTable) <= 2 THEN joiningTable
    ELSE <<joiningTable[1], joiningTable[2]>>

PrimaryMatches ==
    {i \in DOMAIN Considered : Considered[i].references = M2MTable}

SecondaryMatches ==
    {i \in DOMAIN Considered : Considered[i].references # M2MTable}

\* C12: role resolution is strict: the primary role resolves only if
\* exactly one foreign key column references the declaring table, the
\* secondary role only if exactly one references the related table; with
\* zero or several matches the lookup raises instead of picking one.
C12_StrictRoleResolution ==
    /\ roleOut.op = "primary" =>
          (roleOut.kind = "ok" <=> Cardinality(PrimaryMatches) = 1)
    /\ roleOut.op = "secondary" =>
          (roleOut.kind = "ok" <=> Cardinality(SecondaryMatches) = 1)
    /\ roleOut.op \in {"primary", "secondary"} /\ roleOut.kind = "error" =>
          roleOut.err = "ValueError"

\* Both considered columns reference the table the M2M is declared on.
SelfReferencing ==
    /\ m2mMeta.built = "ok"
    /\ Len(Considered) = 2
    /\ PrimaryMatches = {1, 2}

\* C13: for a joining table whose two foreign keys both reference the
\* declaring table, role resolution yields two distinct columns as primary
\* and secondary, and get-related does not raise.
C13_SelfReferenceResolves ==
    SelfReferencing =>
        /\ roleOut.op \in {"primary", "secondary", "get"} => roleOut.kind = "ok"
        /\ roleOut.op = "get" =>
              Len(roleOut.cols) = 2 /\ roleOut.cols[1] # roleOut.cols[2]

(***************************************************************************)
(* Claims about the many-to-many select                                    *)
(***************************************************************************)

\* Column classes whose values are an int or a str and are not JSON.
TransportSafeClasses == {"Serial", "Integer", "Varchar"}

\* Some column of the select is not transport safe.
UnsafeRequested ==
    \E i \in DOMAIN m2mSelect.columns :
        m2mSelect.columns[i].class \notin TransportSafeClasses

Rendered == selectOut.op = "get_select_string" /\ selectOut.kind = "ok"

\* C14: when a requested column is not transport safe and the request did
\* not opt into JSON loading, the rendered sub-query selects the related
\* table's primary key instead of the requested column, on every dialect
\* and for both flattened-list and object output.
C14_UnsafeSelectsPrimaryKey ==
    Rendered /\ UnsafeRequested /\ ~m2mSelect.load_json =>
        selectOut.selected = <<RelatedPrimaryKey>>

\* C14 (amended): when a requested column is not transport safe, the
\* rendered sub-query selects the related table's primary key instead of
\* the requested column, whether or not JSON loading was requested - except
\* for a flattened list on Postgres / Cockroach, where the requested column
\* itself is selected into a native array.
C14_UnsafeSelectsPrimaryKeyUnlessList ==
    Rendered /\ UnsafeRequested =>
        IF m2mSelect.as_list /\ selectOut.engine_type \in {"postgres", "cockroach"}
        THEN selectOut.selected = <<m2mSelect.columns[1].name>>
             /\ selectOut.form = "ARRAY"
        ELSE selectOut.selected = <<RelatedPrimaryKey>>

\* A flattened list of a timestamp column was rendered for Postgres.
C14_Witness ==
    /\ Rendered /\ UnsafeRequested /\ ~m2mSelect.load_json
    /\ m2mSelect.as_list /\ selectOut.engine_type = "postgres"
    /\ selectOut.selected = <<"created">>

(***************************************************************************)
(* Claims about declaring relationship columns                             *)
(***************************************************************************)

\* C15: ForeignKey(Manager, null=False) with no explicit default, where the
\* primary key of Manager is an auto-increment column, is accepted:
\* construction raises no error.
C15_NullFalseAccepted ==
    /\ declOut.op = "init"
    /\ fkDecl.reference_kind = "class"
    /\ fkDecl.target \in {"Serial", "BigSerial", "PrimaryKey"}
    /\ ~fkDecl.null
    /\ fkDecl.default = "None"
    => declOut.kind = "ok"

\* The 64-bit integer type of a dialect.
BigIntegerType(engine_type) ==
    IF engine_type = "sqlite" THEN "INTEGER" ELSE "BIGINT"

\* C16: on every dialect the DDL type of a relationship column equals the
\* DDL type of its target column, except that a Serial target gives the
\* plain integer type and a BigSerial target the dialect's 64-bit integer
\* type; its value type always equals the target column's value type.
C16_TypeFollowsTarget ==
    /\ declOut.op = "column_type" /\ declOut.engine_type \in Dialects =>
          /\ declOut.kind = "ok"
          /\ declOut.value =
                CASE fkDecl.target = "BigSerial" -> BigIntegerType(declOut.engine_type)
                  [] fkDecl.target \in {"Serial", "PrimaryKey"} -> "INTEGER"
                  [] OTHER -> Column_column_type(fkDecl.target,
                                                 declOut.engine_type).value
    /\ declOut.op = "value_type" =>
          /\ declOut.value = Column_value_type(fkDecl.target)
          /\ fkDecl.target = "UUID" => declOut.value = "uuid.UUID"

\* The column type of a relationship column to a BigSerial key was read on
\* Postgres.
C16_Witness ==
    /\ declOut.op = "column_type" /\ declOut.engine_type = "postgres"
    /\ fkDecl.target = "BigSerial"
    /\ declOut.value = "BIGINT"


\* A run, as opposed to a request for the statements.
RunStep == runOut.op = "run"

\* run() has returned or raised.
RunDone == RunStep /\ ~Running

\* The builder's class has no renderer of its own for the engine's dialect.
NoDialectRenderer == runEngine \in Dialects /\ runEngine \notin runner.class

\* The message of the most recent error names the engine's dialect.
MessageNamesDialect == \E i \in DOMAIN runOut.message : runOut.message[i] = runEngine

\* C17: running a Query or a DDL on a table without an engine raises the
\* configuration error (ValueError) before any statement is rendered and
\* before any statement is sent to an engine.
C17_NoEngineFailsBeforeRendering ==
    (RunStep /\ runEngine = "none") =>
        /\ runOut.kind = "error"
        /\ runOut.value = "ValueError"
        /\ renders = 0
        /\ engineLog = <<>>

C17_Witness ==
    /\ RunStep
    /\ runEngine = "none"
    /\ runner.type = "DDL"
    /\ runner.class = Renderers
    /\ runOut.value = "ValueError"

\* C18: a builder without a renderer for the dialect of the active engine but
\* with a default renderer answers a request for its statements with the
\* statements of the default renderer.
C18_DefaultRendererIsTheFallback ==
    (runOut.op = "statements" /\ NoDialectRenderer /\ "default" \in runner.class) =>
        /\ runOut.kind = "ok"
        /\ runOut.statements =
              IF runner.type = "Query"
              THEN [k \in 1..runner.nstmts |-> Statement("default", k, <<>>)]
              ELSE DDL_renderer(runner, "default").value

C18_Witness ==
    /\ runOut.op = "statements"
    /\ runner.type = "DDL"
    /\ runEngine = "sqlite"
    /\ runner.class = {"postgres", "default"}
    /\ runOut.kind = "ok"
    /\ Len(runOut.statements) = runner.nstmts

\* C19 (as stated): requesting the statements of a builder that has neither
\* a renderer for the engine's dialect nor a default renderer raises an error
\* whose message names that dialect.
C19_MissingRendererNamesDialect ==
    (runOut.op = "statements" /\ NoDialectRenderer /\ "default" \notin runner.class) =>
        /\ runOut.kind = "error"
        /\ MessageNamesDialect

\* C19 (amended): for one of the three dialects, a builder with neither
\* renderer raises NotImplementedError without a message; the error whose
\* message names the engine is raised for an engine type outside the three
\* dialects, whatever renderers the builder has.
C19_MissingRendererIsNotImplemented ==
    /\ (runOut.op = "statements" /\ NoDialectRenderer /\ "default" \notin runner.class) =>
          /\ runOut.kind = "error"
          /\ runOut.value = "NotImplementedError"
          /\ runOut.message = <<>>
    /\ (runOut.op = "statements" /\ runEngine \notin Dialects \cup {"none"}) =>
          /\ runOut.kind = "error"
          /\ runOut.value = "Exception"
          /\ MessageNamesDialect

C19_Witness ==
    /\ runOut.op = "statements"
    /\ runner.type = "Query"
    /\ runEngine = "cockroach"
    /\ runner.class = {"postgres"}
    /\ runOut.value = "NotImplementedError"

\* The statements the builder renders for the engine.
RenderedStatements == StatementsOf(runner, runEngine).statements

\* C20: a run sends the rendered statements one after the other in rendered
\* order, each once; when the engine fails on a statement the error reaches
\* the caller, the failed statement is the last one sent and it was sent
\* once.
C20_StatementsSentInOrderOnce ==
    (RunStep /\ StatementsOf(runner, runEngine).kind = "ok") =>
        /\ Len(engineLog) <= Len(RenderedStatements)
        /\ engineLog = SubSeq(RenderedStatements, 1, Len(engineLog))
        /\ Running =>
              /\ engineLog # <<>>
              /\ runOut.fail_at \in 1..Len(RenderedStatements)
                    => Len(engineLog) <= runOut.fail_at
        /\ RunDone =>
              IF runOut.fail_at \in 1..Len(RenderedStatements)
              THEN /\ runOut.kind = "error"
                   /\ runOut.value = "EngineError"
                   /\ Len(engineLog) = runOut.fail_at
              ELSE /\ runOut.kind = "ok"
                   /\ engineLog = RenderedStatements

C20_Witness ==
    /\ RunStep
    /\ runner.type = "Query"
    /\ Len(RenderedStatements) = MaxStatements
    /\ runOut.fail_at = 1
    /\ runOut.value = "EngineError"
    /\ Len(engineLog) = 1


(***************************************************************************)
(* Claims about reversing relationship columns                             *)
(***************************************************************************)

\* The hops of the path the column was reached by, the column itself last.
PathOf(fk) == fk.call_chain \o <<fk.self>>

\* The column and every relationship column in its join chain are unique.
AllUnique(fk) == \A i \in 1..Len(PathOf(fk)) : PathOf(fk)[i].unique

\* The virtual column v stands for the target column of hop h and refers
\* back to h.
ReversesHop(v, h) ==
    /\ v.table = h.references
    /\ v.name = (IF h.target_column = "None" THEN "id" ELSE h.target_column)
    /\ v.references = h.table
    /\ v.target_column = h.name

\* C24: reverse() produces a column only if the column and every
\* relationship column of its join chain are unique, and raises otherwise;
\* the column produced stands for the target column of the first hop, its
\* join chain holds the remaining hops last hop first, so the reversed path
\* has as many hops as the original one.
C24_ReverseOnlyUniqueChains ==
    revOut.op = "reverse" =>
        IF AllUnique(revFk)
        THEN /\ revOut.kind = "ok"
             /\ LET reversed_ == revOut.column[1]
                    n == Len(PathOf(revFk))
                IN  /\ ReversesHop(reversed_.self, PathOf(revFk)[1])
                    /\ Len(PathOf(reversed_)) = n
                    /\ \A k \in 1..(n - 1) :
                          ReversesHop(reversed_.call_chain[k],
                                      PathOf(revFk)[n - k + 1])
        ELSE /\ revOut.kind = "error"
             /\ revOut.error = "ValueError"
             /\ revOut.column = <<>>

\* A path of MaxHops unique relationship columns was reversed.
C24_Witness ==
    /\ revOut.op = "reverse"
    /\ revOut.kind = "ok"
    /\ Len(revFk.call_chain) = MaxHops - 1
    /\ Len(revOut.column[1].call_chain) = MaxHops - 1
    /\ revOut.column[1].self.table = "fan_club"
    /\ revOut.column[1].call_chain[1].references = "band"


(***************************************************************************)
(* Claims about column defaults                                            *)
(***************************************************************************)

\* C25: for a column that was declared non-nullable (the declaration was
\* accepted), the default value used at insert time is never None.
C25_NonNullableDefaultNeverNone ==
    (colOut.op = "get_default_value" /\ colDecl.built = "ok" /\ ~colDecl.null)
        => colOut.value # "None"


\* C26: on SQLite, adding or subtracting a timedelta to a Timestamp or
\* Timestamptz column raises the precision error exactly when the
\* timedelta's microseconds are not a whole multiple of 1000, and renders a
\* statement otherwise; on Postgres and Cockroach the operation renders and
\* never raises for precision.
C26_PrecisionErrorOnlyOnSqlite ==
    deltaOut.op # "none" =>
        /\ (/\ deltaIn.engine_type = "sqlite"
            /\ deltaIn.column \in {"Timestamp", "Timestamptz"})
           => IF deltaIn.value.microseconds % MicrosecondsPerMillisecond # 0
              THEN deltaOut.error = "ValueError: precision"
              ELSE deltaOut.kind = "ok" /\ deltaOut.form = "strftime"
        /\ deltaIn.engine_type \in {"postgres", "cockroach"}
           => deltaOut.kind = "ok" /\ deltaOut.form = "INTERVAL"

\* A timedelta with half a millisecond left over was subtracted from a
\* SQLite Timestamp column and refused.
C26_Witness ==
    /\ deltaOut.op = "-"
    /\ deltaIn.engine_type = "sqlite"
    /\ deltaIn.column = "Timestamp"
    /\ deltaIn.value.microseconds % MicrosecondsPerMillisecond
          = MicrosecondsPerMillisecond \div (1 + 1)
    /\ deltaOut.error = "ValueError: precision"


\* The keys of the selected JSON and JSONB columns.
SelectedJsonKeys ==
    {ResultKey(resQuery.selected_columns[i]) :
        i \in {j \in DOMAIN resQuery.selected_columns :
                  resQuery.selected_columns[j].class \in {"JSON", "JSONB"}}}

\* response_handler was given every row with the JSON text of the selected
\* JSON and JSONB columns decoded and the nulls left as they were.
ReceivedDecoded ==
    /\ Len(resOut.received) = Len(resRows)
    /\ \A i \in DOMAIN resRows : \A key \in SelectedJsonKeys :
          resOut.received[i][key] =
             IF resRows[i][key] = "None" THEN "None"
             ELSE encoding_load_json(resRows[i][key])

\* The objects are made of the rows response_handler was given.
HydratedAfterwards ==
    resQuery.output.as_objects =>
        \A i \in DOMAIN resOut.response :
           resOut.response[i].columns = resOut.received[i]

\* C27 (as stated): whenever a selected column is JSON or JSONB, its non-null
\* text values are decoded in every row before response_handler runs and
\* before the objects are made; nulls stay null.
C27_JsonDecodedBeforeHandler ==
    resOut.op # "none" => ReceivedDecoded /\ HydratedAfterwards

\* C27 (amended): the decoding happens when the output asks for load_json;
\* then every row reaches response_handler with the non-null JSON text of the
\* selected JSON and JSONB columns decoded and the nulls left null, and the
\* objects are made of those rows.  Without load_json response_handler is
\* given the rows as the database returned them.
C27_JsonDecodedWhenLoadJson ==
    resOut.op # "none" =>
        /\ resQuery.output.load_json => ReceivedDecoded
        /\ ~resQuery.output.load_json => resOut.received = resRows
        /\ HydratedAfterwards

\* Objects were made with load_json of two rows, one with JSON text and one
\* with a null in the same JSON column.
C27_Witness ==
    /\ resOut.op = "_process_results"
    /\ resQuery.output.load_json /\ resQuery.output.as_objects
    /\ Len(resRows) = MaxResultRows
    /\ resRows[1]["facilities"] \in JsonTexts
    /\ resRows[MaxResultRows]["facilities"] = "None"
    /\ resOut.response[1].columns["facilities"] = "dict(a=1)"


\* C28: a relationship column reached through a relationship column is
\* returned whenever the chain of the copy has at most 10 elements and the
\* chain-too-long error is raised only when the chain would have more than
\* 10; no join chain ever has more than 10 elements.
C28_RaisesOnlyBeyondLimit ==
    /\ (last.name = "next" /\ last.kind \in {"fk", "CallChainTooLong"}) =>
          (last.kind = "CallChainTooLong" <=> last.depth + 1 > CallChainLimit)
    /\ \A m \in 1..Len(heap.metas) :
          Len(heap.metas[m].call_chain) <= CallChainLimit

====
